---- MODULE Spec2Model ----
(***************************************************************************)
(* A model of otp-runner (src/lib/index.js, class OtpRunner): the pipeline *)
(* validate -> clear -> download -> build -> {serve, post-build uploads}   *)
(* -> final log upload -> exit, with its status record, the status file,   *)
(* the fail funnel and the supervised build and server processes.          *)
(*                                                                         *)
(* The program runs on a single-threaded event loop.  One action of the    *)
(* model is one continuation: the code that runs between two awaits that   *)
(* wait for I/O or for a timer.  Awaits that are settled by micro-tasks    *)
(* only (an async function that returns without I/O) do not split a        *)
(* continuation.  The outcomes of I/O (a transfer, a status write, the     *)
(* instance-id lookup, a process exiting or logging) are chosen by the     *)
(* environment.                                                            *)
(***************************************************************************)
EXTENDS Integers, FiniteSets, Sequences, TLC

\* ------------------------------------------------------------------ bounds

\* the largest number of input downloads (baseFolderDownloads and
\* gtfsDownloads together) a manifest of the model lists
MaxInputs == 1

\* manifest.serverStartupTimeoutSeconds of the manifests of the model
ServerStartupTimeoutSeconds == 2

\* the longest time, in whole seconds, between two reads of the clock by the
\* server supervisor (the one-second wait and the read of the log file)
MaxPollSeconds == 1

\* the largest number of fields in which a manifest of the model differs
\* from BaseManifest
MaxEdits == 2

\* ------------------------------------------------------------------ tasks

InputNames == <<"in1", "in2", "in3">>

Inputs(n) == {InputNames[i] : i \in 1..n}

DownloadNames == {"jar", "graphobj"} \cup Inputs(MaxInputs)

PostBuildNames == {"server", "graph", "blog", "report"}

Tasks == {"main"} \cup DownloadNames \cup PostBuildNames

\* ---------------------------------------------------------------- messages

\* a message: its fixed text, the value put into it, the errors of the
\* manifest it lists, and the line of the build log appended to it
Msg(text, arg) == [text |-> text, arg |-> arg, errors |-> {}, line |-> <<>>]

NoMsg == Msg("", "")

InitMsg == Msg("Inintializing...", "")

InstanceIdMsg == Msg("Failed to get instanceId. Error: ", "e")

\* an error that does not come from fail: a rejected fs.writeFile
WriteErr == Msg("EIO: write", "")

\* ---------------------------------------------------------------- manifest

\* Every manifest the model can express.  Fields that only validation reads
\* are kept as what validation asks of them: inputs is the number of input
\* downloads, graphObjUrl the scheme of the url ("none" when absent),
\* s3UploadPath whether the path is defined, schemaValid whether the JSON
\* schema accepts the manifest.
AllManifests ==
  [ buildGraph : BOOLEAN, runServer : BOOLEAN, uploadGraph : BOOLEAN,
    uploadGraphBuildLogs : BOOLEAN, uploadGraphBuildReport : BOOLEAN,
    uploadServerStartupLogs : BOOLEAN, uploadOtpRunnerLogs : BOOLEAN,
    prefixLogUploadsWithInstanceId : BOOLEAN, otpVersion : {"1.x", "2.x"},
    s3UploadPath : BOOLEAN, schemaValid : BOOLEAN,
    graphObjUrl : {"none", "s3:"}, inputs : {0, MaxInputs} ]

\* a manifest that builds a graph and serves it, and uploads nothing
BaseManifest ==
  [ buildGraph |-> TRUE, runServer |-> TRUE, uploadGraph |-> FALSE,
    uploadGraphBuildLogs |-> FALSE, uploadGraphBuildReport |-> FALSE,
    uploadServerStartupLogs |-> FALSE, uploadOtpRunnerLogs |-> FALSE,
    prefixLogUploadsWithInstanceId |-> FALSE, otpVersion |-> "2.x",
    s3UploadPath |-> TRUE, schemaValid |-> TRUE, graphObjUrl |-> "s3:",
    inputs |-> MaxInputs ]

\* the manifests the runs of the model start from: the base manifest with
\* at most MaxEdits of its fields changed
Manifests ==
  {m \in AllManifests :
     Cardinality({k \in DOMAIN m : m[k] # BaseManifest[k]}) <= MaxEdits}

isUsingOtp2x(m) == m.otpVersion = "2.x"

\* a faulty variant of DownloadTasks, which downloads the inputs for a build
\* only
DownloadTasksInputsForBuild(m) ==
  {"jar"} \cup (IF m.buildGraph THEN Inputs(m.inputs) ELSE {})
    \cup (IF ~m.buildGraph /\ m.runServer THEN {"graphobj"} ELSE {})

\* the download tasks downloadFiles builds from the manifest
DownloadTasks(m) ==
  {"jar"} \cup Inputs(m.inputs)
    \cup (IF ~m.buildGraph /\ m.runServer THEN {"graphobj"} ELSE {})

\* ------------------------------------------------------------------ status

RECURSIVE Fact(_)
Fact(n) == IF n <= 1 THEN 1 ELSE n * Fact(n - 1)

\* pctProgress is held in units of 1/PctScale percent, so that the quotient
\* of makeDownloadTask is exact for every number of downloads of the model
PctScale == Fact(MaxInputs + 2)

Pct(p) == p * PctScale

InitStatus ==
  [ error |-> FALSE, graphBuilt |-> FALSE, graphUploaded |-> FALSE,
    serverStarted |-> FALSE, message |-> InitMsg, numFilesDownloaded |-> 0,
    pctProgress |-> 0, totalFilesToDownload |-> 0 ]

\* the status file before the first write of the run
NoFile == [InitStatus EXCEPT !.message = NoMsg]

\* a faulty variant of SetStatus, which never lowers pctProgress
SetStatusMonotone(st, message, pctProgress) ==
  LET s1 == IF message # NoMsg /\ message # st.message /\ ~st.error
              THEN [st EXCEPT !.message = message]
              ELSE st
  IN  IF pctProgress > st.pctProgress
        THEN [s1 EXCEPT !.pctProgress = pctProgress] ELSE s1

\* the synchronous part of updateStatus(message, pctProgress); the write of
\* the file that follows it is an await of the caller
SetStatus(st, message, pctProgress) ==
  LET s1 == IF message # NoMsg /\ message # st.message /\ ~st.error
              THEN [st EXCEPT !.message = message]
              ELSE st
  IN  IF pctProgress # 0 THEN [s1 EXCEPT !.pctProgress = pctProgress] ELSE s1

\* the two assignments at the head of fail(message)
SetError(st, message) == [st EXCEPT !.error = TRUE, !.message = message]

\* --------------------------------------------------------------- variables

VARIABLES
  manifestFile,\* the manifest in the file the runner was given
  manifest,    \* this.manifest
  status,      \* this.status
  statusFile,  \* the document at manifest.statusFileLocation
  pc,          \* where each task (async call) stands
  wsnap,       \* per task: the document of the status write it awaits
  fl,          \* per task: the invocation of fail it awaits
  bg,          \* status writes in flight that no continuation awaits alone
  err,         \* per task: the error it rejected with
  instanceId,  \* whether this.instanceId is set
  build,       \* the build process
  srv,         \* the server process and its log file
  loc,         \* the local variables of startServer
  uploads,     \* the s3 copies attempted so far
  copyFailed,  \* the log copies for which uploadFileToS3 returned false
  last100Logs, \* the lines of build output buildGraph keeps in memory
  linesSeen,   \* history: the number of lines pushed on last100Logs so far
  files,       \* the file at the destination of each download
  transfers,   \* history: the transfers downloadFileIfNeeded has started
  scheme,      \* the protocol of jarUrl and of the url of each input
  argv,        \* the arguments java was spawned with, per sub-command
  env          \* the world outside: the metadata endpoint, the disk

vars ==
  << manifestFile, manifest, status, statusFile, pc, wsnap, fl, bg, err, instanceId,
     build, srv, loc, uploads, copyFailed, last100Logs,
     linesSeen, files, transfers, scheme, argv, env >>

\* the destinations on a machine that has not run the runner before
NoFiles == [d \in DownloadNames |-> "absent"]

\* jarUrl and the urls of the inputs as the schema's default and its examples
\* have them
DefaultScheme == [d \in DownloadNames \ {"graphobj"} |-> "https:"]

\* no process has been spawned
NoArgs == [build |-> <<>>, serve |-> <<>>]

NoFail ==
  [stage |-> "idle", log |-> "idle", wr |-> "none", snap |-> NoFile, msg |-> NoMsg]

Init ==
  /\ manifest \in Manifests
  /\ manifestFile = manifest
  /\ status = InitStatus
  /\ statusFile = NoFile
  /\ pc = [t \in Tasks |-> IF t = "main" THEN "start" ELSE "idle"]
  /\ wsnap = [t \in Tasks |-> NoFile]
  /\ fl = [t \in Tasks |-> NoFail]
  /\ bg = {}
  /\ err = [t \in Tasks |-> NoMsg]
  /\ instanceId = FALSE
  /\ build = "none"
  /\ srv = [spawned |-> FALSE, exited |-> FALSE, exitCode |-> 0, killed |-> FALSE,
            log |-> {}]
  /\ loc = [found |-> FALSE, graphRead |-> FALSE, elapsed |-> 0, outcome |-> "none"]
  /\ uploads = {}
  /\ copyFailed = {}
  /\ last100Logs = <<>>
  /\ linesSeen = 0
  /\ files = NoFiles
  /\ transfers = <<>>
  /\ scheme = DefaultScheme
  /\ argv = NoArgs
  /\ env \in [metadataUp : BOOLEAN, diskOk : {TRUE}]
  /\ ~manifest.prefixLogUploadsWithInstanceId => env.metadataUp

\* ----------------------------------------------------------------- helpers

Set(f, t, v) == [f EXCEPT ![t] = v]

\* the tasks run() awaits together after the build step (runPostBuildTasks)
PostTasks(m) ==
  (IF m.runServer THEN {"server"} ELSE {})
    \cup (IF m.buildGraph THEN {"graph", "blog", "report"} ELSE {})

\* whether run() is suspended in a Promise.all that holds task t
MainAwaits(t) ==
  \/ pc["main"] = "dl_await" /\ t \in DownloadTasks(manifest)
  \/ pc["main"] = "post_await" /\ t \in PostTasks(manifest)

\* a faulty variant of Rejecting, in which run() waits for every task of its
\* Promise.all to settle
RejectingAlone(t, e) ==
  /\ pc' = Set(pc, t, "rejected")
  /\ err' = Set(err, t, e)

\* task t rejects with error e; a Promise.all of run() that holds t rejects
\* with it in the same turn of the event loop
Rejecting(t, e) ==
  LET hit(x) == x = t \/ (x = "main" /\ MainAwaits(t))
  IN  /\ pc' = [x \in Tasks |-> IF hit(x) THEN "rejected" ELSE pc[x]]
      /\ err' = [x \in Tasks |-> IF hit(x) THEN e ELSE err[x]]

\* task t calls fail(message) with the status st it has reached: the
\* synchronous head of fail, up to its first await
EnterFail(t, st, message) ==
  /\ status' = SetError(st, message)
  /\ fl' = Set(fl, t, [NoFail EXCEPT !.stage = "wait", !.msg = message])
  /\ pc' = Set(pc, t, "in_fail")

\* task t awaits updateStatus(message, pctProgress) called on status st
AwaitStatus(t, st, message, pctProgress, next) ==
  LET s2 == SetStatus(st, message, pctProgress)
  IN  /\ status' = s2
      /\ wsnap' = Set(wsnap, t, s2)
      /\ pc' = Set(pc, t, next)

\* where a call of getLogUploadPrefix followed by the s3 copy first suspends:
\* in the lookup of getInstanceId, or in the copy itself
LogUploadStart ==
  IF manifest.prefixLogUploadsWithInstanceId /\ ~instanceId
    THEN "lookup" ELSE "upload"

\* uploadFileToS3 returns for the log or report copy key: true, or false after
\* the aws command has thrown; the callers of these copies ignore the value
CopyReturns(key) ==
  \E ok \in BOOLEAN :
    copyFailed' = IF ok THEN copyFailed ELSE copyFailed \cup {key}

\* ------------------------------------------------------------------- fail

\* a faulty variant of FailSettle, which does not wait for the status write
FailSettleLogOnly(t, f) ==
  IF f.log = "done"
    THEN /\ fl' = Set(fl, t, [f EXCEPT !.stage = "over"])
         /\ IF pc[t] = "in_fail" THEN Rejecting(t, f.msg)
                                 ELSE UNCHANGED <<pc, err>>
    ELSE /\ fl' = Set(fl, t, f)
         /\ UNCHANGED <<pc, err>>

\* the frame f of fail that task t awaits settles when both halves of its
\* Promise.all are done: fail throws new Error(message)
FailSettle(t, f) ==
  IF f.log = "done" /\ f.wr = "done"
    THEN /\ fl' = Set(fl, t, [f EXCEPT !.stage = "over"])
         /\ IF pc[t] = "in_fail" THEN Rejecting(t, f.msg)
                                 ELSE UNCHANGED <<pc, err>>
    ELSE /\ fl' = Set(fl, t, f)
         /\ UNCHANGED <<pc, err>>

\* fail, after waitOneSecond: uploadOtpRunnerLogs() and updateStatus() are
\* called and awaited together
FailWaitDone(t) ==
  /\ fl[t].stage = "wait"
  /\ LET lg == IF manifest.uploadOtpRunnerLogs THEN LogUploadStart ELSE "done"
     IN  /\ fl' = Set(fl, t, [fl[t] EXCEPT !.stage = "io", !.log = lg,
                                            !.wr = "inflight", !.snap = status])
         /\ uploads' = IF lg = "upload" THEN uploads \cup {"runnerlog"} ELSE uploads
  /\ UNCHANGED <<manifestFile, manifest, status, statusFile, pc, wsnap, bg, err,
                 instanceId, build, srv, loc, copyFailed, last100Logs,
                 linesSeen, files, transfers, scheme, argv, env>>

\* getInstanceId inside fail's uploadOtpRunnerLogs: the lookup answers
FailLookupOk(t) ==
  /\ fl[t].stage = "io" /\ fl[t].log = "lookup"
  /\ env.metadataUp
  /\ instanceId' = TRUE
  /\ fl' = Set(fl, t, [fl[t] EXCEPT !.log = "upload"])
  /\ uploads' = uploads \cup {"runnerlog"}
  /\ UNCHANGED <<manifestFile, manifest, status, statusFile, pc, wsnap, bg, err,
                 build, srv, loc, copyFailed, last100Logs, linesSeen, files,
                 transfers, scheme, argv, env>>

\* getInstanceId inside fail's uploadOtpRunnerLogs: the lookup throws, and
\* the catch block calls fail again.  The frame that waits for it keeps
\* waiting; its status write goes on in the background.
FailLookupFail(t) ==
  /\ fl[t].stage = "io" /\ fl[t].log = "lookup"
  /\ ~env.metadataUp
  /\ status' = SetError(status, InstanceIdMsg)
  /\ bg' = IF fl[t].wr = "inflight"
             THEN bg \cup {[owner |-> t, snap |-> fl[t].snap]} ELSE bg
  /\ fl' = Set(fl, t, [NoFail EXCEPT !.stage = "wait", !.msg = InstanceIdMsg])
  /\ UNCHANGED <<manifestFile, manifest, statusFile, pc, wsnap, err, instanceId,
                 build, srv, loc, uploads, copyFailed, last100Logs, linesSeen,
                 files, transfers, scheme, argv, env>>

\* uploadFileToS3 of the runner log returns (true or false: both are ignored)
FailUploadDone(t) ==
  /\ fl[t].stage = "io" /\ fl[t].log = "upload"
  /\ CopyReturns("runnerlog")
  /\ FailSettle(t, [fl[t] EXCEPT !.log = "done"])
  /\ UNCHANGED <<manifestFile, manifest, status, statusFile, wsnap, bg,
                 instanceId, build, srv, loc, uploads, last100Logs, linesSeen,
                 files, transfers, scheme, argv, env>>

\* the status write of fail completes
FailWriteLand(t) ==
  /\ fl[t].stage = "io" /\ fl[t].wr = "inflight"
  /\ env.diskOk
  /\ statusFile' = fl[t].snap
  /\ FailSettle(t, [fl[t] EXCEPT !.wr = "done"])
  /\ UNCHANGED <<manifestFile, manifest, status, wsnap, bg, instanceId, build,
                 srv, loc, uploads, copyFailed, last100Logs, linesSeen, files,
                 transfers, scheme, argv, env>>

\* the status write of fail rejects: Promise.all rejects at once, while the
\* log upload goes on
FailWriteFail(t) ==
  /\ fl[t].stage = "io" /\ fl[t].wr = "inflight"
  /\ env' = [env EXCEPT !.diskOk = FALSE]
  /\ fl' = Set(fl, t, [fl[t] EXCEPT !.wr = "failed"])
  /\ IF pc[t] = "in_fail" THEN Rejecting(t, WriteErr) ELSE UNCHANGED <<pc, err>>
  /\ UNCHANGED <<manifestFile, manifest, status, statusFile, wsnap, bg,
                 instanceId, build, srv, loc, uploads, copyFailed, last100Logs,
                 linesSeen, files, transfers, scheme, argv>>

\* a status write of an outer frame of fail completes
BgWriteLand(w) ==
  /\ w \in bg
  /\ env.diskOk
  /\ statusFile' = w.snap
  /\ bg' = bg \ {w}
  /\ UNCHANGED <<manifestFile, manifest, status, pc, wsnap, fl, err, instanceId,
                 build, srv, loc, uploads, copyFailed, last100Logs, linesSeen,
                 files, transfers, scheme, argv, env>>

\* a status write of an outer frame of fail rejects, and with it every frame
\* above it
BgWriteFail(w) ==
  /\ w \in bg
  /\ env' = [env EXCEPT !.diskOk = FALSE]
  /\ bg' = bg \ {w}
  /\ IF pc[w.owner] = "in_fail" THEN Rejecting(w.owner, WriteErr)
                                ELSE UNCHANGED <<pc, err>>
  /\ UNCHANGED <<manifestFile, manifest, status, statusFile, wsnap, fl,
                 instanceId, build, srv, loc, uploads, copyFailed, last100Logs,
                 linesSeen, files, transfers, scheme, argv>>

\* the continuations that start when a status write of updateStatus completes
WritePcs ==
  {"dl_status", "dl_write", "b_status", "b_poll_status", "b_done_status",
   "s_status1", "s_status2", "s_status3", "g_status"}

\* fs.writeFile of updateStatus rejects in a task that awaits it: the error
\* leaves the task as it is, fail is not called
WriteFileFails(t) ==
  /\ pc[t] \in WritePcs
  /\ env' = [env EXCEPT !.diskOk = FALSE]
  /\ Rejecting(t, WriteErr)
  /\ UNCHANGED <<manifestFile, manifest, status, statusFile, wsnap, fl, bg,
                 instanceId, build, srv, loc, uploads, copyFailed, last100Logs,
                 linesSeen, files, transfers, scheme, argv>>

\* ------------------------------------------------------- validateManifest

\* the manifest keys that start with "upload", uploadGraph aside
UploadKeys(m) ==
  {k \in {"uploadGraphBuildLogs", "uploadGraphBuildReport",
          "uploadServerStartupLogs", "uploadOtpRunnerLogs"} : m[k]}

\* a faulty variant of ManifestErrors, which keeps the first error only
ManifestErrorsFirst(m) ==
  IF ~m.buildGraph /\ ~m.runServer THEN {"buildGraph or runServer"}
  ELSE IF m.buildGraph /\ m.inputs = 0 THEN {"need inputs"}
  ELSE IF ~m.buildGraph /\ m.graphObjUrl = "none" THEN {"graphObjUrl"}
  ELSE IF m.uploadGraph /\ m.graphObjUrl # "s3:" THEN {"graphObjUrl s3"}
  ELSE IF ~m.s3UploadPath /\ UploadKeys(m) # {}
    THEN {CHOOSE k \in UploadKeys(m) : TRUE}
  ELSE {}

\* the errors validateManifest accumulates after the schema has passed
ManifestErrors(m) ==
  (IF ~m.buildGraph /\ ~m.runServer THEN {"buildGraph or runServer"} ELSE {})
    \cup (IF m.buildGraph /\ m.inputs = 0 THEN {"need inputs"} ELSE {})
    \cup (IF ~m.buildGraph /\ m.graphObjUrl = "none" THEN {"graphObjUrl"} ELSE {})
    \cup (IF m.uploadGraph /\ m.graphObjUrl # "s3:" THEN {"graphObjUrl s3"} ELSE {})
    \cup (IF ~m.s3UploadPath THEN UploadKeys(m) ELSE {})

SchemaMsg == Msg("ajv.errorsText", "")

ManifestMsg(errors) ==
  [Msg("The following errors were found in the manifest.json file:", "")
     EXCEPT !.errors = errors]

\* a faulty variant of ValidateManifest, which goes on to the rules across
\* fields, and on with the run, when the schema has rejected the manifest
ValidateManifestLenient ==
  /\ pc["main"] = "start"
  /\ LET errors == ManifestErrors(manifest)
     IN  /\ manifest' =
              IF ~manifest.s3UploadPath /\ manifest.uploadOtpRunnerLogs
                THEN [manifest EXCEPT !.uploadOtpRunnerLogs = FALSE]
                ELSE manifest
         /\ IF errors # {}
              THEN EnterFail("main", status, ManifestMsg(errors))
              ELSE /\ pc' = Set(pc, "main", "clear")
                   /\ UNCHANGED <<status, fl>>
  /\ UNCHANGED <<manifestFile, statusFile, wsnap, bg, err, instanceId, build,
                 srv, loc, uploads, copyFailed, last100Logs, linesSeen, files,
                 transfers, scheme, argv, env>>

\* run() starts: validateManifest, and on a valid manifest the first await of
\* clearFoldersAndFiles
ValidateManifest ==
  /\ pc["main"] = "start"
  /\ IF ~manifest.schemaValid
       THEN /\ EnterFail("main", status, SchemaMsg)
            /\ UNCHANGED manifest
       ELSE LET errors == ManifestErrors(manifest)
            IN  /\ manifest' =
                     IF ~manifest.s3UploadPath /\ manifest.uploadOtpRunnerLogs
                       THEN [manifest EXCEPT !.uploadOtpRunnerLogs = FALSE]
                       ELSE manifest
                /\ IF errors # {}
                     THEN EnterFail("main", status, ManifestMsg(errors))
                     ELSE /\ pc' = Set(pc, "main", "clear")
                          /\ UNCHANGED <<status, fl>>
  /\ UNCHANGED <<manifestFile, statusFile, wsnap, bg, err, instanceId, build,
                 srv, loc, uploads, copyFailed, last100Logs, linesSeen, files,
                 transfers, scheme, argv, env>>

\* ---------------------------------------- clearFoldersAndFiles, downloads

\* the protocol of the url of download d
UrlProtocol(d) == IF d = "graphobj" THEN manifest.graphObjUrl ELSE scheme[d]

\* a faulty variant of downloadFileIfNeeded, which fetches the file whether
\* or not the destination exists
downloadFileAlways(file, protocol) ==
  IF protocol = "s3:" THEN "aws" ELSE "got"

\* what downloadFileIfNeeded({dest, url}) starts: nothing when the
\* destination exists, else a copy by the aws CLI for an s3: url and a
\* streamed download by got for any other url
downloadFileIfNeeded(file, protocol) ==
  IF file # "absent" THEN "none"
  ELSE IF protocol = "s3:" THEN "aws"
  ELSE "got"

\* the downloads whose destination lies in the target folder: jarFile is a
\* path of its own, /opt/otp-1.4.0-shaded.jar unless the manifest names one
InTargetFolder == DownloadNames \ {"jar"}

\* the destinations after fs.remove and fs.mkdirp of the target folder
Cleared(fs) ==
  [d \in DownloadNames |-> IF d \in InTargetFolder THEN "absent" ELSE fs[d]]

\* downloadFileIfNeeded resolves for download d: the destination was there,
\* or the transfer has written all of it
Fetched(d) ==
  LET by == downloadFileIfNeeded(files[d], UrlProtocol(d))
  IN  IF by = "none"
        THEN UNCHANGED <<files, transfers>>
        ELSE /\ files' = Set(files, d, "complete")
             /\ transfers' = Append(transfers, [dest |-> d, by |-> by])

\* downloadFileIfNeeded throws for download d: the transfer has failed.  The
\* write stream got was piped into has created the destination and is
\* closed with what had arrived; the aws CLI puts nothing at the destination
\* before the copy is whole
FetchFailed(d) ==
  LET by == downloadFileIfNeeded(files[d], UrlProtocol(d))
  IN  /\ by # "none"
      /\ files' = Set(files, d, IF by = "got" THEN "partial" ELSE "absent")
      /\ transfers' = Append(transfers, [dest |-> d, by |-> by])

DownloadingMsg(n) == Msg("Downloading n files...", ToString(n))

\* the target folder is recreated; downloadFiles builds its tasks and awaits
\* the first status write
ClearFoldersOk ==
  /\ pc["main"] = "clear"
  /\ files' = Cleared(files)
  /\ LET n == Cardinality(DownloadTasks(manifest))
     IN  AwaitStatus("main", [status EXCEPT !.totalFilesToDownload = n],
                     DownloadingMsg(n), Pct(10), "dl_status")
  /\ UNCHANGED <<manifestFile, manifest, statusFile, fl, bg, err, instanceId,
                 build, srv, loc, uploads, copyFailed, last100Logs, linesSeen,
                 transfers, scheme, argv, env>>

ClearFoldersFail ==
  /\ pc["main"] = "clear"
  /\ files' \in {files, Cleared(files)}
  /\ EnterFail("main", status, Msg("Failed to recreate graph router folder", ""))
  /\ UNCHANGED <<manifestFile, manifest, statusFile, wsnap, bg, err, instanceId,
                 build, srv, loc, uploads, copyFailed, last100Logs, linesSeen,
                 transfers, scheme, argv, env>>

\* downloadFiles, after its status write: every download task is started
DownloadFilesStart ==
  /\ pc["main"] = "dl_status"
  /\ env.diskOk
  /\ statusFile' = wsnap["main"]
  /\ pc' = [t \in Tasks |->
              IF t = "main" THEN "dl_await"
              ELSE IF t \in DownloadTasks(manifest) THEN "dl_run" ELSE pc[t]]
  /\ UNCHANGED <<manifestFile, manifest, status, wsnap, fl, bg, err, instanceId,
                 build, srv, loc, uploads, copyFailed, last100Logs, linesSeen,
                 files, transfers, scheme, argv, env>>

\* a faulty variant of DownloadProgressComponent, with one share for every
\* combination of phases
DownloadProgressComponentFlat(m) == 20

\* the share of the download phase in the overall progress
DownloadProgressComponent(m) ==
  IF m.buildGraph /\ m.runServer THEN 20
  ELSE IF m.buildGraph THEN 40
  ELSE 30

\* 10 + downloadProgressComponent * numFilesDownloaded / totalFilesToDownload
DownloadPct(m, k, n) ==
  Pct(10) + (DownloadProgressComponent(m) * k * PctScale) \div n

DownloadedMsg(url) == Msg("Downloaded ", url)

\* a faulty variant of MakeDownloadTaskOk, which loses its increment when
\* another download is writing the status
MakeDownloadTaskLost(d) ==
  /\ pc[d] = "dl_run"
  /\ LET k == IF \E e \in DownloadNames : pc[e] = "dl_write"
                THEN status.numFilesDownloaded
                ELSE status.numFilesDownloaded + 1
     IN  AwaitStatus(d, [status EXCEPT !.numFilesDownloaded = k],
                     DownloadedMsg(d),
                     DownloadPct(manifest, k, status.totalFilesToDownload),
                     "dl_write")
  /\ Fetched(d)
  /\ UNCHANGED <<manifestFile, manifest, statusFile, fl, bg, err, instanceId,
                 build, srv, loc, uploads, copyFailed, last100Logs, linesSeen,
                 scheme, argv, env>>

\* makeDownloadTask, after downloadFileIfNeeded has resolved
MakeDownloadTaskOk(d) ==
  /\ pc[d] = "dl_run"
  /\ LET k == status.numFilesDownloaded + 1
     IN  AwaitStatus(d, [status EXCEPT !.numFilesDownloaded = k],
                     DownloadedMsg(d),
                     DownloadPct(manifest, k, status.totalFilesToDownload),
                     "dl_write")
  /\ Fetched(d)
  /\ UNCHANGED <<manifestFile, manifest, statusFile, fl, bg, err, instanceId,
                 build, srv, loc, uploads, copyFailed, last100Logs, linesSeen,
                 scheme, argv, env>>

DownloadFailedMsg(url) == Msg("Failed to download file: ", url)

\* a faulty variant of MakeDownloadTaskFail, which puts the failed download
\* back among the tasks to be started
MakeDownloadTaskRetry(d) ==
  /\ pc[d] = "dl_run"
  /\ pc' = Set(pc, d, "idle")
  /\ UNCHANGED <<manifestFile, manifest, status, statusFile, wsnap, fl, bg, err,
                 instanceId, build, srv, loc, uploads, copyFailed, last100Logs,
                 linesSeen, files, transfers, scheme, argv, env>>

\* makeDownloadTask, after downloadFileIfNeeded has thrown
MakeDownloadTaskFail(d) ==
  /\ pc[d] = "dl_run"
  /\ FetchFailed(d)
  /\ EnterFail(d, status, DownloadFailedMsg(d))
  /\ UNCHANGED <<manifestFile, manifest, statusFile, wsnap, bg, err, instanceId,
                 build, srv, loc, uploads, copyFailed, last100Logs, linesSeen,
                 scheme, argv, env>>

\* makeDownloadTask returns after its status write
DownloadWritten(d) ==
  /\ pc[d] = "dl_write"
  /\ env.diskOk
  /\ statusFile' = wsnap[d]
  /\ pc' = Set(pc, d, "done")
  /\ UNCHANGED <<manifestFile, manifest, status, wsnap, fl, bg, err, instanceId,
                 build, srv, loc, uploads, copyFailed, last100Logs, linesSeen,
                 files, transfers, scheme, argv, env>>

\* ---------------------------------------------------------- the build log

\* Text is held as a sequence of characters, each a string of length one.

\* the capacity of the buffer buildGraph keeps the build output in
LogWindowSize == 100

\* the number of characters of a log line that go into the status message
StatusLineChars == 60

\* the largest number of lines of build output a run of the model produces
MaxLogLines == 3

IsDigit(c) == c \in {"0", "1", "2", "3", "4", "5", "6", "7", "8", "9"}

\* the characters String.prototype.trim removes and \s matches
IsSpace(c) == c \in {" ", "\t", "\n", "\r"}

RECURSIVE TrimStart(_)
TrimStart(s) ==
  IF s # <<>> /\ IsSpace(Head(s)) THEN TrimStart(Tail(s)) ELSE s

RECURSIVE TrimEnd(_)
TrimEnd(s) ==
  IF s # <<>> /\ IsSpace(s[Len(s)])
    THEN TrimEnd(SubSeq(s, 1, Len(s) - 1)) ELSE s

\* String.prototype.trim
Trim(s) == TrimEnd(TrimStart(s))

\* s.split('\n'): the pieces of s between its line feeds, empty ones included
RECURSIVE SplitLines(_)
SplitLines(s) ==
  IF \E i \in 1..Len(s) : s[i] = "\n"
    THEN LET i == CHOOSE k \in 1..Len(s) :
                    s[k] = "\n" /\ \A j \in 1..(k - 1) : s[j] # "\n"
         IN  <<SubSeq(s, 1, i - 1)>> \o SplitLines(SubSeq(s, i + 1, Len(s)))
    ELSE <<s>>

\* lines.join('\n')
RECURSIVE JoinLines(_)
JoinLines(lines) ==
  IF lines = <<>> THEN <<>>
  ELSE IF Len(lines) = 1 THEN lines[1]
  ELSE lines[1] \o <<"\n">> \o JoinLines(Tail(lines))

\* a faulty variant of BufferPush, which drops the new line at capacity
BufferPushKeepOldest(buf, line) ==
  IF Len(buf) < LogWindowSize THEN Append(buf, line) ELSE buf

\* CircularBuffer.push: the line is added at the end, and at capacity the
\* oldest line is dropped
BufferPush(buf, line) ==
  IF Len(buf) < LogWindowSize THEN Append(buf, line)
                              ELSE Append(Tail(buf), line)

RECURSIVE BufferPushAll(_, _)
BufferPushAll(buf, lines) ==
  IF lines = <<>> THEN buf
  ELSE BufferPushAll(BufferPush(buf, Head(lines)), Tail(lines))

\* the 'data' handler of buildGraph: the chunk is trimmed and, when something
\* is left of it, every line of it is pushed
OnBuildData(buf, data) ==
  LET lastMessage == Trim(data)
  IN  IF lastMessage # <<>> THEN BufferPushAll(buf, SplitLines(lastMessage))
                            ELSE buf

\* line.replace(/^\d\d:\d\d:.*\(.*\)\s*/, ''): a line that starts with two
\* digits, a colon, two digits and a colon, and has an opening parenthesis
\* followed by a closing one after that, loses everything up to the last
\* such closing parenthesis (both .* are greedy) and the white space after it
StripJavaPrefix(line) ==
  LET n == Len(line)
      stamped == /\ n >= 6
                 /\ IsDigit(line[1]) /\ IsDigit(line[2]) /\ line[3] = ":"
                 /\ IsDigit(line[4]) /\ IsDigit(line[5]) /\ line[6] = ":"
      closes == {j \in 8..n : line[j] = ")" /\ \E i \in 7..(j - 1) : line[i] = "("}
  IN  IF stamped /\ closes # {}
        THEN LET j == CHOOSE k \in closes : \A l \in closes : l <= k
             IN  TrimStart(SubSeq(line, j + 1, n))
        ELSE line

\* s.substring(0, StatusLineChars)
Cut(s) == IF Len(s) > StatusLineChars THEN SubSeq(s, 1, StatusLineChars) ELSE s

\* lastLog of the loop of buildGraph
LastLog(buf) ==
  IF Len(buf) > 1 THEN Cut(StripJavaPrefix(buf[Len(buf)])) ELSE <<>>

\* `Building graph... ${lastLog !== '' ? ` (${lastLog})` : ''}`
BuildingMsg(lastLog) ==
  [Msg("Building graph... ", "") EXCEPT
     !.line = IF lastLog # <<>> THEN <<" ", "(">> \o lastLog \o <<")">>
                               ELSE <<>>]

\* ------------------------------------------------ runPostBuildTasks, build

StartingMsg == Msg("Starting OTP server", "")

\* a faulty variant of RunPostBuildTasks, which starts the server only when
\* no upload is left to wait for
RunPostBuildTasksInTurn(pushed) ==
  /\ pc' = [t \in Tasks |->
       IF t = "main" THEN "post_await"
       ELSE IF t = "server" /\ manifest.runServer /\ ~pushed THEN "s_status1"
       ELSE IF t = "graph" /\ pushed
         THEN (IF manifest.uploadGraph THEN "g_upload" ELSE "done")
       ELSE IF t = "blog" /\ pushed
         THEN (IF manifest.uploadGraphBuildLogs THEN "l_upload" ELSE "done")
       ELSE IF t = "report" /\ pushed
         THEN (IF manifest.uploadGraphBuildReport THEN "r_zip" ELSE "done")
       ELSE pc[t]]
  /\ uploads' = uploads
       \cup (IF pushed /\ manifest.uploadGraph THEN {"graph"} ELSE {})
       \cup (IF pushed /\ manifest.uploadGraphBuildLogs THEN {"buildlog"} ELSE {})
  /\ UNCHANGED <<status, wsnap>>

\* runPostBuildTasks up to its Promise.all.  With pushed, the continuation
\* comes from the end of buildGraph, which has just called uploadGraphObj,
\* uploadBuildLogs, createAndUploadBundle and uploadGraphBuildReport without
\* awaiting them; each runs to its first await.  startServer runs to the
\* write of its first status.
RunPostBuildTasks(pushed) ==
  /\ pc' = [t \in Tasks |->
       IF t = "main" THEN "post_await"
       ELSE IF t = "server" /\ manifest.runServer THEN "s_status1"
       ELSE IF t = "graph" /\ pushed
         THEN (IF manifest.uploadGraph THEN "g_upload" ELSE "done")
       ELSE IF t = "blog" /\ pushed
         THEN (IF manifest.uploadGraphBuildLogs THEN "l_upload" ELSE "done")
       ELSE IF t = "report" /\ pushed
         THEN (IF manifest.uploadGraphBuildReport THEN "r_zip" ELSE "done")
       ELSE pc[t]]
  /\ uploads' = uploads
       \cup (IF pushed /\ manifest.uploadGraph THEN {"graph"} ELSE {})
       \cup (IF pushed /\ manifest.uploadGraphBuildLogs THEN {"buildlog"} ELSE {})
  /\ IF manifest.runServer
       THEN LET s2 == SetStatus(status, StartingMsg,
                                IF manifest.buildGraph THEN Pct(70) ELSE Pct(40))
            IN  status' = s2 /\ wsnap' = Set(wsnap, "server", s2)
       ELSE UNCHANGED <<status, wsnap>>

\* a faulty variant of DownloadsResolved, which goes on as soon as one
\* download task has resolved
DownloadsResolvedFirst ==
  /\ pc["main"] = "dl_await"
  /\ \E d \in DownloadTasks(manifest) : pc[d] = "done"
  /\ IF manifest.buildGraph
       THEN /\ AwaitStatus("main", status, Msg("Building graph", ""),
                           IF manifest.runServer THEN Pct(30) ELSE Pct(50),
                           "b_status")
            /\ UNCHANGED uploads
       ELSE RunPostBuildTasks(FALSE)
  /\ UNCHANGED <<manifestFile, manifest, statusFile, fl, bg, err, instanceId,
                 build, srv, loc, copyFailed, last100Logs, linesSeen, files,
                 transfers, scheme, argv, env>>

\* a faulty variant of DownloadsResolved, which goes on to the server without
\* the build
DownloadsResolvedSkipBuild ==
  /\ pc["main"] = "dl_await"
  /\ \A d \in DownloadTasks(manifest) : pc[d] = "done"
  /\ RunPostBuildTasks(FALSE)
  /\ UNCHANGED <<manifestFile, manifest, statusFile, fl, bg, err, instanceId,
                 build, srv, loc, copyFailed, last100Logs, linesSeen, files,
                 transfers, scheme, argv, env>>

\* run(), once every download task has resolved: buildGraph up to its first
\* status write, or (no build) runPostBuildTasks
DownloadsResolved ==
  /\ pc["main"] = "dl_await"
  /\ \A d \in DownloadTasks(manifest) : pc[d] = "done"
  /\ IF manifest.buildGraph
       THEN /\ AwaitStatus("main", status, Msg("Building graph", ""),
                           IF manifest.runServer THEN Pct(30) ELSE Pct(50),
                           "b_status")
            /\ UNCHANGED uploads
       ELSE RunPostBuildTasks(FALSE)
  /\ UNCHANGED <<manifestFile, manifest, statusFile, fl, bg, err, instanceId,
                 build, srv, loc, copyFailed, last100Logs, linesSeen, files,
                 transfers, scheme, argv, env>>

\* getBaseOTPArgs(jarFile): the memory, which is worked out from os.totalmem,
\* and the paths of the manifest are kept as names
getBaseOTPArgs(jarFile) == <<"-jar", "-Xmx<mem>k", jarFile>>

\* path.join(baseFolder, routerName) for 1.x, baseFolder for 2.x
getTargetFolder(m) ==
  IF isUsingOtp2x(m) THEN "baseFolder" ELSE "baseFolder/routerName"

makeBuildArgs(m) ==
  getBaseOTPArgs("jarFile") \o <<"--build">>
    \o (IF isUsingOtp2x(m) THEN <<"--save">> ELSE <<>>)
    \o <<getTargetFolder(m)>>

makeServeArgs(m) ==
  getBaseOTPArgs("jarFile")
    \o (IF isUsingOtp2x(m)
          THEN <<"--load", getTargetFolder(m)>>
          ELSE <<"--server", "--graphs", "baseFolder", "--router", "routerName">>)

\* buildGraph spawns the build process and waits one second
BuildSpawn ==
  /\ pc["main"] = "b_status"
  /\ env.diskOk
  /\ statusFile' = wsnap["main"]
  /\ build' = "running"
  /\ argv' = [argv EXCEPT !.build = makeBuildArgs(manifest)]
  /\ pc' = Set(pc, "main", "b_wait")
  /\ UNCHANGED <<manifestFile, manifest, status, wsnap, fl, bg, err, instanceId,
                 srv, loc, uploads, copyFailed, last100Logs, linesSeen, files,
                 transfers, scheme, env>>

BuildFailedMsg == Msg("Build graph failed! Please see logs.", "")

\* a faulty variant of BuildExitCodeIsNull, which takes the exit code 0 for
\* no exit code
BuildExitCodeIsFalsy == build \in {"running", "signal", "exit0"}

\* subprocess.exitCode: null while the process runs and after a signal ended it
BuildExitCodeIsNull == build \in {"running", "signal"}

\* a faulty variant of BuildLoopTest, which takes every exit for a success
BuildLoopTestAnyExit ==
  IF BuildExitCodeIsNull
    THEN /\ pc' = Set(pc, "main", "b_poll")
         /\ UNCHANGED <<status, wsnap, fl, uploads>>
    ELSE /\ AwaitStatus("main", [status EXCEPT !.graphBuilt = TRUE],
                        Msg("Graph built successfully!", ""),
                        IF manifest.runServer THEN Pct(70) ELSE Pct(90),
                        "b_done_status")
         /\ UNCHANGED <<fl, uploads>>

\* the test of the while loop of buildGraph and, out of the loop, the code up
\* to the next await
BuildLoopTest ==
  IF BuildExitCodeIsNull
    THEN /\ pc' = Set(pc, "main", "b_poll")
         /\ UNCHANGED <<status, wsnap, fl, uploads>>
  ELSE IF build = "exit1"
    THEN IF manifest.uploadGraphBuildLogs
           THEN /\ pc' = Set(pc, "main", "b_fail_upload")
                /\ uploads' = uploads \cup {"buildlog"}
                /\ UNCHANGED <<status, wsnap, fl>>
           ELSE /\ EnterFail("main", status, BuildFailedMsg)
                /\ UNCHANGED <<wsnap, uploads>>
  ELSE /\ AwaitStatus("main", [status EXCEPT !.graphBuilt = TRUE],
                      Msg("Graph built successfully!", ""),
                      IF manifest.runServer THEN Pct(70) ELSE Pct(90),
                      "b_done_status")
       /\ UNCHANGED <<fl, uploads>>

\* the second that buildGraph waits before its loop has passed
BuildWaited ==
  /\ pc["main"] = "b_wait"
  /\ BuildLoopTest
  /\ UNCHANGED <<manifestFile, manifest, statusFile, bg, err, instanceId, build,
                 srv, loc, copyFailed, last100Logs, linesSeen, files, transfers,
                 scheme, argv, env>>

\* in the loop: a second has passed, the status gets the latest log line
BuildPollWaited ==
  /\ pc["main"] = "b_poll"
  /\ AwaitStatus("main", status, BuildingMsg(LastLog(last100Logs)), 0,
                 "b_poll_status")
  /\ UNCHANGED <<manifestFile, manifest, statusFile, fl, bg, err, instanceId,
                 build, srv, loc, uploads, copyFailed, last100Logs, linesSeen,
                 files, transfers, scheme, argv, env>>

\* in the loop: the status is written, the loop tests the exit code again
BuildPollWritten ==
  /\ pc["main"] = "b_poll_status"
  /\ env.diskOk
  /\ statusFile' = wsnap["main"]
  /\ BuildLoopTest
  /\ UNCHANGED <<manifestFile, manifest, bg, err, instanceId, build, srv, loc,
                 copyFailed, last100Logs, linesSeen, files, transfers, scheme,
                 argv, env>>

\* the build failed and its log has been uploaded (or not): fail
BuildFailUploaded ==
  /\ pc["main"] = "b_fail_upload"
  /\ CopyReturns("buildlog")
  /\ EnterFail("main", status, BuildFailedMsg)
  /\ UNCHANGED <<manifestFile, manifest, statusFile, wsnap, bg, err, instanceId,
                 build, srv, loc, uploads, last100Logs, linesSeen, files,
                 transfers, scheme, argv, env>>

\* buildGraph ends: the follow-up tasks are started, run() goes on with
\* runPostBuildTasks
BuildDoneWritten ==
  /\ pc["main"] = "b_done_status"
  /\ env.diskOk
  /\ statusFile' = wsnap["main"]
  /\ RunPostBuildTasks(TRUE)
  /\ UNCHANGED <<manifestFile, manifest, fl, bg, err, instanceId, build, srv,
                 loc, copyFailed, last100Logs, linesSeen, files, transfers,
                 scheme, argv, env>>

\* the build process ends with an exit code
BuildExits(code) ==
  /\ build = "running"
  /\ build' = IF code = 0 THEN "exit0" ELSE "exit1"
  /\ UNCHANGED <<manifestFile, manifest, status, statusFile, pc, wsnap, fl, bg,
                 err, instanceId, srv, loc, uploads, copyFailed, last100Logs,
                 linesSeen, files, transfers, scheme, argv, env>>

\* the build process is ended by a signal: its exit code stays null
BuildSignalled ==
  /\ build = "running"
  /\ build' = "signal"
  /\ UNCHANGED <<manifestFile, manifest, status, statusFile, pc, wsnap, fl, bg,
                 err, instanceId, srv, loc, uploads, copyFailed, last100Logs,
                 linesSeen, files, transfers, scheme, argv, env>>

\* ------------------------------------------------------ post-build uploads

\* uploadGraphObj: the copy of the graph succeeded
GraphUploadOk ==
  /\ pc["graph"] = "g_upload"
  /\ AwaitStatus("graph", [status EXCEPT !.graphUploaded = TRUE],
                 Msg("Graph uploaded!", ""),
                 IF manifest.runServer THEN Pct(80) ELSE Pct(100), "g_status")
  /\ UNCHANGED <<manifestFile, manifest, statusFile, fl, bg, err, instanceId,
                 build, srv, loc, uploads, copyFailed, last100Logs, linesSeen,
                 files, transfers, scheme, argv, env>>

GraphUploadFailedMsg == Msg("Failed to upload graph!", "")

\* a faulty variant of GraphUploadFail, which takes the failed copy of the
\* graph like the failed copy of a log
GraphUploadFailSwallowed ==
  /\ pc["graph"] = "g_upload"
  /\ pc' = Set(pc, "graph", "done")
  /\ UNCHANGED <<manifestFile, manifest, status, statusFile, wsnap, fl, bg, err,
                 instanceId, build, srv, loc, uploads, copyFailed, last100Logs,
                 linesSeen, files, transfers, scheme, argv, env>>

\* uploadGraphObj: uploadFileToS3 returned false
GraphUploadFail ==
  /\ pc["graph"] = "g_upload"
  /\ EnterFail("graph", status, GraphUploadFailedMsg)
  /\ UNCHANGED <<manifestFile, manifest, statusFile, wsnap, bg, err, instanceId,
                 build, srv, loc, uploads, copyFailed, last100Logs, linesSeen,
                 files, transfers, scheme, argv, env>>

GraphStatusWritten ==
  /\ pc["graph"] = "g_status"
  /\ env.diskOk
  /\ statusFile' = wsnap["graph"]
  /\ pc' = Set(pc, "graph", "done")
  /\ UNCHANGED <<manifestFile, manifest, status, wsnap, fl, bg, err, instanceId,
                 build, srv, loc, uploads, copyFailed, last100Logs, linesSeen,
                 files, transfers, scheme, argv, env>>

\* a faulty variant of BuildLogsUploaded, in which the failed copy of the
\* build log is fatal
BuildLogsUploadedFatal ==
  /\ pc["blog"] = "l_upload"
  /\ \E ok \in BOOLEAN :
       IF ok
         THEN /\ pc' = Set(pc, "blog", "done")
              /\ UNCHANGED <<status, fl, copyFailed>>
         ELSE /\ copyFailed' = copyFailed \cup {"buildlog"}
              /\ EnterFail("blog", status, Msg("Failed to upload build log!", ""))
  /\ UNCHANGED <<manifestFile, manifest, statusFile, wsnap, bg, err, instanceId,
                 build, srv, loc, uploads, last100Logs, linesSeen, files,
                 transfers, scheme, argv, env>>

\* uploadBuildLogs after the build: uploadFileToS3 returned (true or false)
BuildLogsUploaded ==
  /\ pc["blog"] = "l_upload"
  /\ CopyReturns("buildlog")
  /\ pc' = Set(pc, "blog", "done")
  /\ UNCHANGED <<manifestFile, manifest, status, statusFile, wsnap, fl, bg, err,
                 instanceId, build, srv, loc, uploads, last100Logs, linesSeen,
                 files, transfers, scheme, argv, env>>

\* uploadGraphBuildReport: the report exists and is zipped, the copy starts
ReportZipped ==
  /\ pc["report"] = "r_zip"
  /\ pc' = Set(pc, "report", "r_upload")
  /\ uploads' = uploads \cup {"report"}
  /\ UNCHANGED <<manifestFile, manifest, status, statusFile, wsnap, fl, bg, err,
                 instanceId, build, srv, loc, copyFailed, last100Logs,
                 linesSeen, files, transfers, scheme, argv, env>>

\* uploadGraphBuildReport: no report, or zip failed: return
ReportSkipped ==
  /\ pc["report"] = "r_zip"
  /\ pc' = Set(pc, "report", "done")
  /\ UNCHANGED <<manifestFile, manifest, status, statusFile, wsnap, fl, bg, err,
                 instanceId, build, srv, loc, uploads, copyFailed, last100Logs,
                 linesSeen, files, transfers, scheme, argv, env>>

ReportUploaded ==
  /\ pc["report"] = "r_upload"
  /\ CopyReturns("report")
  /\ pc' = Set(pc, "report", "done")
  /\ UNCHANGED <<manifestFile, manifest, status, statusFile, wsnap, fl, bg, err,
                 instanceId, build, srv, loc, uploads, last100Logs, linesSeen,
                 files, transfers, scheme, argv, env>>

\* ------------------------------------------------------------ startServer

\* the lines of the server log the supervisor looks for
GrizzlyMarker == "Grizzly server running"

GraphReadMarker(m) == IF isUsingOtp2x(m) THEN "Graph read." ELSE "Main graph read."

NoGraphMarker == "Can't register router ID 'routerName', no graph."

Markers == {GrizzlyMarker, "Graph read.", "Main graph read.", NoGraphMarker}

\* what the server process may have done to its exit code since the
\* supervisor last looked: nothing, or exited with code 0 or 1
ExitEvents ==
  {[exited |-> FALSE, exitCode |-> 0],
   [exited |-> TRUE, exitCode |-> 0],
   [exited |-> TRUE, exitCode |-> 1]}

ServerStartedMsg == Msg("Server successfully started!", "")

ServerFailMsg(outcome, exitCode) ==
  IF outcome = "exited"
    THEN Msg("Server failed to start and exited with code ", ToString(exitCode))
  ELSE IF outcome = "regfail"
    THEN Msg("An error occurred while trying to start the OTP Server!", "")
  ELSE Msg("Server took longer than N seconds to start!",
           ToString(ServerStartupTimeoutSeconds))

\* startServer after uploadServerLogs: success sets serverStarted and writes
\* the status, every other outcome is handed to fail
ServerOutcome(outcome, exitCode) ==
  IF outcome = "started"
    THEN /\ AwaitStatus("server", [status EXCEPT !.serverStarted = TRUE],
                        ServerStartedMsg, Pct(90), "s_status3")
         /\ UNCHANGED fl
    ELSE /\ EnterFail("server", status, ServerFailMsg(outcome, exitCode))
         /\ UNCHANGED wsnap

\* a faulty variant of ServerFinish, which uploads the server log of a
\* started server only
ServerFinishStartedOnly(outcome, exitCode) ==
  IF manifest.uploadServerStartupLogs /\ outcome = "started"
    THEN /\ pc' = Set(pc, "server", IF LogUploadStart = "lookup"
                                      THEN "s_lookup" ELSE "s_upload")
         /\ uploads' = IF LogUploadStart = "upload"
                         THEN uploads \cup {"serverlog"} ELSE uploads
         /\ UNCHANGED <<status, wsnap, fl>>
    ELSE /\ ServerOutcome(outcome, exitCode)
         /\ UNCHANGED uploads

\* the supervisor has decided on outcome: uploadServerLogs, then the outcome
ServerFinish(outcome, exitCode) ==
  IF manifest.uploadServerStartupLogs
    THEN /\ pc' = Set(pc, "server", IF LogUploadStart = "lookup"
                                      THEN "s_lookup" ELSE "s_upload")
         /\ uploads' = IF LogUploadStart = "upload"
                         THEN uploads \cup {"serverlog"} ELSE uploads
         /\ UNCHANGED <<status, wsnap, fl>>
    ELSE /\ ServerOutcome(outcome, exitCode)
         /\ UNCHANGED uploads

\* startServer after its first status write: the server process is spawned
ServerSpawn ==
  /\ pc["server"] = "s_status1"
  /\ env.diskOk
  /\ statusFile' = wsnap["server"]
  /\ srv' = [srv EXCEPT !.spawned = TRUE]
  /\ argv' = [argv EXCEPT !.serve = makeServeArgs(manifest)]
  /\ AwaitStatus("server", status, Msg("Starting OTP server...", ""), 0, "s_status2")
  /\ UNCHANGED <<manifestFile, manifest, fl, bg, err, instanceId, build, loc,
                 uploads, copyFailed, last100Logs, linesSeen, files, transfers,
                 scheme, env>>

\* the loop of startServer is entered: serverStartTime is taken, the exit
\* code is tested for the first time
ServerLoopEnter ==
  /\ pc["server"] = "s_status2"
  /\ env.diskOk
  /\ statusFile' = wsnap["server"]
  /\ \E ev \in ExitEvents :
       /\ srv' = [srv EXCEPT !.exited = ev.exited, !.exitCode = ev.exitCode]
       /\ IF ev.exited
            THEN /\ loc' = [loc EXCEPT !.elapsed = 0, !.outcome = "exited"]
                 /\ ServerFinish("exited", ev.exitCode)
            ELSE /\ loc' = [loc EXCEPT !.elapsed = 0]
                 /\ pc' = Set(pc, "server", "s_poll")
                 /\ UNCHANGED <<status, wsnap, fl, uploads>>
  /\ UNCHANGED <<manifestFile, manifest, bg, err, instanceId, build, copyFailed,
                 last100Logs, linesSeen, files, transfers, scheme, argv, env>>

\* faulty variants of ServerVerdict: one marker is enough to be started;
\* the timeout is tested before the marker of a failed registration; the
\* loop test is made before the timeout
ServerVerdictEither(data, found, graphRead, elapsed, exited) ==
  IF NoGraphMarker \in data THEN "regfail"
  ELSE IF elapsed > ServerStartupTimeoutSeconds THEN "timeout"
  ELSE IF found \/ graphRead THEN "started"
  ELSE IF exited THEN "exited"
  ELSE "none"

ServerVerdictTimeoutFirst(data, found, graphRead, elapsed, exited) ==
  IF elapsed > ServerStartupTimeoutSeconds THEN "timeout"
  ELSE IF NoGraphMarker \in data THEN "regfail"
  ELSE IF found /\ graphRead THEN "started"
  ELSE IF exited THEN "exited"
  ELSE "none"

ServerVerdictReadyFirst(data, found, graphRead, elapsed, exited) ==
  IF NoGraphMarker \in data THEN "regfail"
  ELSE IF found /\ graphRead THEN "started"
  ELSE IF elapsed > ServerStartupTimeoutSeconds THEN "timeout"
  ELSE IF exited THEN "exited"
  ELSE "none"

\* a faulty variant of ServerVerdict, for which the time is up as soon as the
\* timeout is reached
ServerVerdictBeforeLimit(data, found, graphRead, elapsed, exited) ==
  IF NoGraphMarker \in data THEN "regfail"
  ELSE IF elapsed >= ServerStartupTimeoutSeconds THEN "timeout"
  ELSE IF found /\ graphRead THEN "started"
  ELSE IF exited THEN "exited"
  ELSE "none"

\* which way one pass of the loop body goes, from the log read, the flags so
\* far, the time elapsed and whether the process has exited: the marker of a
\* failed registration, then the timeout, then the loop test, then the exit
\* test at the head of the next pass
ServerVerdict(data, found, graphRead, elapsed, exited) ==
  IF NoGraphMarker \in data THEN "regfail"
  ELSE IF elapsed > ServerStartupTimeoutSeconds THEN "timeout"
  ELSE IF found /\ graphRead THEN "started"
  ELSE IF exited THEN "exited"
  ELSE "none"

\* a faulty variant of ServerPoll, which also kills the server when the
\* supervisor gives up on a process that has exited
ServerPollKillsExited ==
  /\ pc["server"] = "s_poll"
  /\ \E d \in 1..MaxPollSeconds, new \in SUBSET (Markers \ srv.log),
        ev \in ExitEvents :
       LET data == srv.log \cup new
           found == loc.found \/ GrizzlyMarker \in data
           graphRead == loc.graphRead \/ GraphReadMarker(manifest) \in data
           elapsed == loc.elapsed + d
           outcome == ServerVerdict(data, found, graphRead, elapsed, ev.exited)
       IN  /\ loc' = [found |-> found, graphRead |-> graphRead,
                      elapsed |-> elapsed, outcome |-> outcome]
           /\ srv' = [srv EXCEPT !.log = data, !.exited = ev.exited,
                                 !.exitCode = ev.exitCode,
                                 !.killed = outcome \in {"regfail", "timeout", "exited"}]
           /\ IF outcome = "none"
                THEN UNCHANGED <<status, pc, wsnap, fl, uploads>>
                ELSE ServerFinish(outcome, ev.exitCode)
  /\ UNCHANGED <<manifestFile, manifest, statusFile, bg, err, instanceId, build,
                 copyFailed, last100Logs, linesSeen, files, transfers, scheme,
                 argv, env>>

\* one pass of the loop body after the exit test: a second is waited, the log
\* is read, then the loop test and the exit test of the next pass.  In the
\* meantime (d seconds) the server process has written the lines new to its
\* log and has or has not exited (ev).
ServerPoll ==
  /\ pc["server"] = "s_poll"
  /\ \E d \in 1..MaxPollSeconds, new \in SUBSET (Markers \ srv.log),
        ev \in ExitEvents :
       LET data == srv.log \cup new
           found == loc.found \/ GrizzlyMarker \in data
           graphRead == loc.graphRead \/ GraphReadMarker(manifest) \in data
           elapsed == loc.elapsed + d
           outcome == ServerVerdict(data, found, graphRead, elapsed, ev.exited)
       IN  /\ loc' = [found |-> found, graphRead |-> graphRead,
                      elapsed |-> elapsed, outcome |-> outcome]
           /\ srv' = [srv EXCEPT !.log = data, !.exited = ev.exited,
                                 !.exitCode = ev.exitCode,
                                 !.killed = outcome \in {"regfail", "timeout"}]
           /\ IF outcome = "none"
                THEN UNCHANGED <<status, pc, wsnap, fl, uploads>>
                ELSE ServerFinish(outcome, ev.exitCode)
  /\ UNCHANGED <<manifestFile, manifest, statusFile, bg, err, instanceId, build,
                 copyFailed, last100Logs, linesSeen, files, transfers, scheme,
                 argv, env>>

\* getInstanceId inside uploadServerLogs answers: the copy starts
ServerLookupOk ==
  /\ pc["server"] = "s_lookup"
  /\ env.metadataUp
  /\ instanceId' = TRUE
  /\ pc' = Set(pc, "server", "s_upload")
  /\ uploads' = uploads \cup {"serverlog"}
  /\ UNCHANGED <<manifestFile, manifest, status, statusFile, wsnap, fl, bg, err,
                 build, srv, loc, copyFailed, last100Logs, linesSeen, files,
                 transfers, scheme, argv, env>>

\* getInstanceId inside uploadServerLogs throws: its catch block calls fail
ServerLookupFail ==
  /\ pc["server"] = "s_lookup"
  /\ ~env.metadataUp
  /\ EnterFail("server", status, InstanceIdMsg)
  /\ UNCHANGED <<manifestFile, manifest, statusFile, wsnap, bg, err, instanceId,
                 build, srv, loc, uploads, copyFailed, last100Logs, linesSeen,
                 files, transfers, scheme, argv, env>>

\* uploadServerLogs returns
ServerLogsUploaded ==
  /\ pc["server"] = "s_upload"
  /\ CopyReturns("serverlog")
  /\ ServerOutcome(loc.outcome, srv.exitCode)
  /\ UNCHANGED <<manifestFile, manifest, statusFile, bg, err, instanceId, build,
                 srv, loc, uploads, last100Logs, linesSeen, files, transfers,
                 scheme, argv, env>>

\* startServer returns after its last status write
ServerStartedWritten ==
  /\ pc["server"] = "s_status3"
  /\ env.diskOk
  /\ statusFile' = wsnap["server"]
  /\ pc' = Set(pc, "server", "done")
  /\ UNCHANGED <<manifestFile, manifest, status, wsnap, fl, bg, err, instanceId,
                 build, srv, loc, uploads, copyFailed, last100Logs, linesSeen,
                 files, transfers, scheme, argv, env>>

\* -------------------------------------------------------------- end of run

\* a faulty variant of PostBuildResolved, which goes on as soon as one of
\* the tasks has resolved
PostBuildResolvedFirst ==
  /\ pc["main"] = "post_await"
  /\ \E t \in PostTasks(manifest) : pc[t] = "done"
  /\ IF manifest.uploadOtpRunnerLogs
       THEN /\ pc' = Set(pc, "main", IF LogUploadStart = "lookup"
                                       THEN "m_lookup" ELSE "m_upload")
            /\ uploads' = IF LogUploadStart = "upload"
                            THEN uploads \cup {"runnerlog"} ELSE uploads
       ELSE /\ pc' = Set(pc, "main", "exited")
            /\ UNCHANGED uploads
  /\ UNCHANGED <<manifestFile, manifest, status, statusFile, wsnap, fl, bg, err,
                 instanceId, build, srv, loc, copyFailed, last100Logs,
                 linesSeen, files, transfers, scheme, argv, env>>

\* run(), once the Promise.all of runPostBuildTasks has resolved:
\* uploadOtpRunnerLogs, then process.exit(0)
PostBuildResolved ==
  /\ pc["main"] = "post_await"
  /\ \A t \in PostTasks(manifest) : pc[t] = "done"
  /\ IF manifest.uploadOtpRunnerLogs
       THEN /\ pc' = Set(pc, "main", IF LogUploadStart = "lookup"
                                       THEN "m_lookup" ELSE "m_upload")
            /\ uploads' = IF LogUploadStart = "upload"
                            THEN uploads \cup {"runnerlog"} ELSE uploads
       ELSE /\ pc' = Set(pc, "main", "exited")
            /\ UNCHANGED uploads
  /\ UNCHANGED <<manifestFile, manifest, status, statusFile, wsnap, fl, bg, err,
                 instanceId, build, srv, loc, copyFailed, last100Logs,
                 linesSeen, files, transfers, scheme, argv, env>>

\* getInstanceId inside the last uploadOtpRunnerLogs answers
FinalLookupOk ==
  /\ pc["main"] = "m_lookup"
  /\ env.metadataUp
  /\ instanceId' = TRUE
  /\ pc' = Set(pc, "main", "m_upload")
  /\ uploads' = uploads \cup {"runnerlog"}
  /\ UNCHANGED <<manifestFile, manifest, status, statusFile, wsnap, fl, bg, err,
                 build, srv, loc, copyFailed, last100Logs, linesSeen, files,
                 transfers, scheme, argv, env>>

\* getInstanceId inside the last uploadOtpRunnerLogs throws
FinalLookupFail ==
  /\ pc["main"] = "m_lookup"
  /\ ~env.metadataUp
  /\ EnterFail("main", status, InstanceIdMsg)
  /\ UNCHANGED <<manifestFile, manifest, statusFile, wsnap, bg, err, instanceId,
                 build, srv, loc, uploads, copyFailed, last100Logs, linesSeen,
                 files, transfers, scheme, argv, env>>

\* the last upload returns: process.exit(0)
FinalUploaded ==
  /\ pc["main"] = "m_upload"
  /\ CopyReturns("runnerlog")
  /\ pc' = Set(pc, "main", "exited")
  /\ UNCHANGED <<manifestFile, manifest, status, statusFile, wsnap, fl, bg, err,
                 instanceId, build, srv, loc, uploads, last100Logs, linesSeen,
                 files, transfers, scheme, argv, env>>

\* ----------------------------------------------------------- specification

\* process.exit(0) has been called.  run() reaches it only when every task
\* it started has returned, so that no continuation is left to end.
Exited == pc["main"] = "exited"

Next ==
  \/ ValidateManifest
  \/ ClearFoldersOk
  \/ ClearFoldersFail
  \/ DownloadFilesStart
  \/ \E d \in DownloadNames : MakeDownloadTaskOk(d)
  \/ \E d \in DownloadNames : MakeDownloadTaskFail(d)
  \/ \E d \in DownloadNames : DownloadWritten(d)
  \/ DownloadsResolved
  \/ BuildSpawn
  \/ BuildWaited
  \/ BuildPollWaited
  \/ BuildPollWritten
  \/ BuildFailUploaded
  \/ BuildDoneWritten
  \/ \E code \in {0, 1} : BuildExits(code)
  \/ BuildSignalled
  \/ GraphUploadOk
  \/ GraphUploadFail
  \/ GraphStatusWritten
  \/ BuildLogsUploaded
  \/ ReportZipped
  \/ ReportSkipped
  \/ ReportUploaded
  \/ ServerSpawn
  \/ ServerLoopEnter
  \/ ServerPoll
  \/ ServerLookupOk
  \/ ServerLookupFail
  \/ ServerLogsUploaded
  \/ ServerStartedWritten
  \/ PostBuildResolved
  \/ FinalLookupOk
  \/ FinalLookupFail
  \/ FinalUploaded
  \/ \E t \in Tasks : FailWaitDone(t)
  \/ \E t \in Tasks : FailLookupOk(t)
  \/ \E t \in Tasks : FailLookupFail(t)
  \/ \E t \in Tasks : FailUploadDone(t)
  \/ \E t \in Tasks : FailWriteLand(t)
  \/ \E t \in Tasks : FailWriteFail(t)
  \/ \E w \in bg : BgWriteLand(w)
  \/ \E w \in bg : BgWriteFail(w)
  \/ \E t \in Tasks : WriteFileFails(t)

Spec == Init /\ [][Next]_vars

\* --------------------------------------------------------------- fairness

\* the steps of fail for task t
FailStep(t) ==
  \/ FailWaitDone(t)
  \/ FailLookupOk(t)
  \/ FailLookupFail(t)
  \/ FailUploadDone(t)
  \/ FailWriteLand(t)
  \/ FailWriteFail(t)

\* the completions of the status writes that went on in the background
BgStep == \E w \in bg : BgWriteLand(w) \/ BgWriteFail(w)

\* the continuations of run()
MainStep ==
  \/ ValidateManifest
  \/ ClearFoldersOk
  \/ ClearFoldersFail
  \/ DownloadFilesStart
  \/ DownloadsResolved
  \/ BuildSpawn
  \/ BuildWaited
  \/ BuildPollWaited
  \/ BuildPollWritten
  \/ BuildFailUploaded
  \/ BuildDoneWritten
  \/ PostBuildResolved
  \/ FinalLookupOk
  \/ FinalLookupFail
  \/ FinalUploaded

\* the continuations of the download task d
DownloadStep(d) ==
  \/ MakeDownloadTaskOk(d)
  \/ MakeDownloadTaskFail(d)
  \/ DownloadWritten(d)

\* the continuations of startServer
ServerStep ==
  \/ ServerSpawn
  \/ ServerLoopEnter
  \/ ServerPoll
  \/ ServerLookupOk
  \/ ServerLookupFail
  \/ ServerLogsUploaded
  \/ ServerStartedWritten

\* the continuations of the uploads that follow the build
UploadStep ==
  \/ GraphUploadOk
  \/ GraphUploadFail
  \/ GraphStatusWritten
  \/ BuildLogsUploaded
  \/ ReportZipped
  \/ ReportSkipped
  \/ ReportUploaded

\* Timers fire and every I/O operation completes, one way or the other: a
\* continuation that waits for one of them is eventually run.  Nothing is
\* asked of the build process, which may run forever.
Fairness ==
  /\ \A t \in Tasks : WF_vars(FailStep(t) \/ WriteFileFails(t))
  /\ \A d \in DownloadNames : WF_vars(DownloadStep(d))
  /\ WF_vars(BgStep)
  /\ WF_vars(MainStep)
  /\ WF_vars(ServerStep)
  /\ WF_vars(UploadStep)

FairSpec == Spec /\ Fairness

\* ------------------------------------------------------------- properties

\* the promise of the invocation of fail that task t awaits rejects
FailRaises(t) == pc[t] = "in_fail" /\ pc'[t] = "rejected"

\* startServer calls fail
ServerCallsFail == pc["server"] # "in_fail" /\ pc'["server"] = "in_fail"

RegistrationFailedMsg == ServerFailMsg("regfail", 0)

TimeoutMsg == ServerFailMsg("timeout", 0)

\* C1: once status.error is true, no step changes status.message (neither
\* updateStatus nor a later call of fail).
C1_MessageFrozenAfterError ==
  [][status.error => status'.message = status.message]_vars

\* C2: while error stays false, no mutation of the status lowers pctProgress.
C2_PctProgressNeverDecreases ==
  [][~status'.error => status'.pctProgress >= status.pctProgress]_vars

\* C3: every invocation of fail eventually raises to its caller: a task that
\* awaits fail is eventually rejected.
C3_FailEventuallyRaises ==
  \A t \in Tasks : (pc[t] = "in_fail") ~> (pc[t] = "rejected")

C7_TimeoutFails ==
  /\ [][(loc.outcome = "none" /\ loc'.elapsed > ServerStartupTimeoutSeconds
           /\ ~(loc'.found /\ loc'.graphRead)) =>
          loc'.outcome = "timeout" /\ srv'.killed]_vars
  /\ [][(ServerCallsFail /\ loc'.outcome = "timeout") =>
          /\ fl'["server"].msg = TimeoutMsg
          /\ status'.error /\ ~status'.serverStarted]_vars

\* C7, amended: the timeout is the outcome of a poll that finds the time
\* elapsed above the timeout unless the log read holds the marker of a
\* failed registration, ready or not; the process is killed; fail is called
\* with the timeout message once uploadServerLogs has returned, and with
\* 'Failed to get instanceId' when the lookup inside it fails; error is
\* then true and serverStarted false.
C7_TimeoutKills ==
  /\ [][(loc.outcome = "none" /\ loc'.elapsed > ServerStartupTimeoutSeconds
           /\ NoGraphMarker \notin srv'.log) =>
          loc'.outcome = "timeout" /\ srv'.killed]_vars
  /\ [][(ServerCallsFail /\ loc'.outcome = "timeout") =>
          /\ \/ fl'["server"].msg = TimeoutMsg
             \/ pc["server"] = "s_lookup" /\ fl'["server"].msg = InstanceIdMsg
          /\ status'.error /\ ~status'.serverStarted]_vars

\* the server timed out with one marker read and startServer was rejected
\* with the timeout message
C7_Witness ==
  /\ loc.outcome = "timeout" /\ loc.found /\ ~loc.graphRead
  /\ srv.killed
  /\ pc["server"] = "rejected" /\ err["server"] = TimeoutMsg
  /\ status.error /\ ~status.serverStarted

\* C8: serverStarted is never set for a server process that has exited with
\* a nonzero code.
C8_ExitedServerNeverStarted ==
  [][(~status.serverStarted /\ status'.serverStarted) =>
       ~(srv.exited /\ srv.exitCode # 0)]_vars

\* C9: graphBuilt is set exactly when the supervisor finds the exit code 0;
\* after an exit with a nonzero code graphBuilt stays false, no post-build
\* task is started and the server is not spawned; error then becomes true
\* by fail('Build graph failed! Please see logs.'), after the upload of the
\* build log (if configured) was attempted.
C9_BuildSucceedsIffExitZero ==
  /\ [](status.graphBuilt => build = "exit0")
  /\ [](build = "exit1" =>
          /\ ~status.graphBuilt /\ ~srv.spawned
          /\ \A t \in PostBuildNames : pc[t] = "idle"
          /\ uploads \subseteq {"buildlog", "runnerlog"})
  /\ [][(pc["main"] \in {"b_wait", "b_poll_status"} /\ build = "exit0"
           /\ pc'["main"] \notin {"b_wait", "b_poll_status", "rejected"}) =>
          status'.graphBuilt]_vars
  /\ [][(build = "exit1" /\ ~status.error /\ status'.error) =>
          /\ pc'["main"] = "in_fail"
          /\ fl'["main"].msg = BuildFailedMsg
          /\ manifest.uploadGraphBuildLogs => "buildlog" \in uploads]_vars

\* the build of a manifest that asks for a server and for the build log
\* exited with code 1: the log was uploaded and run() rejected
C9_Witness ==
  /\ build = "exit1"
  /\ manifest.runServer /\ manifest.uploadGraphBuildLogs
  /\ "buildlog" \in uploads
  /\ pc["main"] = "rejected" /\ err["main"] = BuildFailedMsg
  /\ ~srv.spawned

\* C10: the build process is spawned only after every download task has
\* completed, the server process only after that and, when buildGraph is
\* set, after the build has succeeded.
C10_PhasesOrdered ==
  /\ build # "none" => \A d \in DownloadTasks(manifest) : pc[d] = "done"
  /\ srv.spawned =>
       /\ \A d \in DownloadTasks(manifest) : pc[d] = "done"
       /\ manifest.buildGraph => (status.graphBuilt /\ build = "exit0")

\* the server of a manifest that builds has been spawned
C10_Witness ==
  /\ srv.spawned /\ manifest.buildGraph /\ status.graphBuilt
  /\ status.numFilesDownloaded = MaxInputs + 1

\* task t has called fail (at least once) in this run
HasCalledFail(t) == fl[t].stage # "idle"

\* the download of task d has succeeded: the counter has been incremented
Downloaded(d) == pc[d] \in {"dl_write", "done"}

\* C11: a download that fails calls fail with 'Failed to download file: url';
\* when that call raises, run() rejects in the same turn, with the same
\* error, whatever the other downloads are doing; no other download task is
\* touched by it; and after a download has called fail neither the build
\* process nor the server process is ever spawned.
C11_DownloadFailureFailsFast ==
  /\ [][\A d \in DownloadNames :
          (pc[d] = "dl_run" /\ pc'[d] = "in_fail") =>
            (fl'[d].msg = DownloadFailedMsg(d) /\ status'.error)]_vars
  /\ [][\A d \in DownloadNames :
          (FailRaises(d) /\ pc["main"] = "dl_await") =>
            /\ pc'["main"] = "rejected" /\ err'["main"] = err'[d]
            /\ \A e \in DownloadNames \ {d} : pc'[e] = pc[e]]_vars
  /\ []((\E d \in DownloadNames : HasCalledFail(d)) =>
          /\ build = "none" /\ ~srv.spawned
          /\ pc["main"] \in {"dl_await", "rejected"})

\* run() has rejected with the message of a failed download, and another
\* download has completed and written a status that already shows the error
C11_Witness ==
  \E d \in DownloadNames, e \in DownloadNames :
    /\ d # e
    /\ pc["main"] = "rejected" /\ err["main"] = DownloadFailedMsg(d)
    /\ pc[e] = "done" /\ wsnap[e].error
    /\ build = "none" /\ ~srv.spawned

\* C12: numFilesDownloaded never exceeds totalFilesToDownload, it counts
\* every download that has succeeded, and once every download task of the
\* manifest has succeeded it equals totalFilesToDownload, the number of tasks.
C12_DownloadCounter ==
  /\ status.numFilesDownloaded <= status.totalFilesToDownload
  /\ status.numFilesDownloaded >=
       Cardinality({d \in DownloadNames : Downloaded(d)})
  /\ (\A d \in DownloadTasks(manifest) : Downloaded(d)) =>
       /\ status.numFilesDownloaded = status.totalFilesToDownload
       /\ status.totalFilesToDownload = Cardinality(DownloadTasks(manifest))

\* three downloads have succeeded, the last to start its status write being
\* the first to finish it
C12_Witness ==
  /\ Cardinality(DownloadTasks(manifest)) = MaxInputs + 2
  /\ \A d \in DownloadTasks(manifest) : Downloaded(d)
  /\ \E d \in DownloadTasks(manifest) :
       /\ pc[d] = "done"
       /\ wsnap[d].numFilesDownloaded = MaxInputs + 2
  /\ \E d \in DownloadTasks(manifest) : pc[d] = "dl_write"

\* C13: when the copy of the graph fails, uploadGraphObj calls fail with
\* 'Failed to upload graph!' and error becomes true; from then on
\* graphUploaded is false, graphBuilt is true and exit 0 is not reached; when
\* that call of fail raises, run() is rejected.
C13_GraphUploadFailureIsFatal ==
  /\ [][(pc["graph"] = "g_upload" /\ pc'["graph"] # "g_upload"
           /\ ~status'.graphUploaded) =>
          /\ pc'["graph"] = "in_fail"
          /\ fl'["graph"].msg = GraphUploadFailedMsg
          /\ status'.error]_vars
  /\ [](HasCalledFail("graph") =>
          /\ status.error /\ ~status.graphUploaded /\ status.graphBuilt
          /\ ~Exited)
  /\ [][FailRaises("graph") => pc'["main"] = "rejected"]_vars

\* the copy of the graph failed while the server was being started: run()
\* has rejected with the message of the graph upload
C13_Witness ==
  /\ manifest.runServer
  /\ pc["graph"] = "rejected" /\ err["graph"] = GraphUploadFailedMsg
  /\ pc["main"] = "rejected" /\ err["main"] = GraphUploadFailedMsg
  /\ status.graphBuilt /\ ~status.graphUploaded /\ status.error

\* task t is inside the upload of a log or of the report whose outcome no
\* failure of the run depends on: uploadBuildLogs after the build,
\* uploadGraphBuildReport, uploadServerLogs of a server found started, the
\* last uploadOtpRunnerLogs
InLogUpload(t) ==
  \/ pc[t] \in {"l_upload", "r_zip", "r_upload", "m_lookup", "m_upload"}
  \/ pc[t] \in {"s_lookup", "s_upload"} /\ loc.outcome = "started"

\* the copy of key returns false in this step
CopyFailsFor(key) == key \notin copyFailed /\ key \in copyFailed'

C15_ExitOnlyOnSuccess ==
  Exited =>
    /\ ~status.error
    /\ \A t \in Tasks : pc[t] # "rejected" /\ ~HasCalledFail(t)
    /\ \A t \in PostTasks(manifest) \cup DownloadTasks(manifest) : pc[t] = "done"
    /\ bg = {}
    /\ manifest.uploadOtpRunnerLogs => "runnerlog" \in uploads

\* exit 0 after a build, a graph upload and a server start, with the runner
\* log uploaded
C15_Witness ==
  /\ Exited
  /\ manifest.uploadGraph /\ manifest.uploadOtpRunnerLogs
  /\ status.graphUploaded /\ status.serverStarted
  /\ "runnerlog" \in uploads

\* C16: whenever run() has rejected, error is true and the status file shows
\* error=true.
C16_RejectionOnlyThroughFail ==
  pc["main"] = "rejected" => (status.error /\ statusFile.error)

\* --------------------------------------------------------- successful runs

\* The runs in which nothing outside the runner goes wrong: the manifest is
\* valid, the instance-id lookup answers, the disk takes every write, every
\* transfer and the copy of the graph succeed, the build process exits with
\* code 0, and the server process stays up and has written both readiness
\* markers to its log before the timeout.  Copies of logs may fail.
HappyInit ==
  /\ Init
  /\ manifest.schemaValid /\ ManifestErrors(manifest) = {}
  /\ env.metadataUp

\* the server process has not exited when the supervisor first looks
HappyServerLoopEnter == ServerLoopEnter /\ ~srv'.exited

\* the server process stays up, does not fail to register its router, and
\* a read of the log made before the time is up holds both markers: a poll
\* that does not find them leaves time for another one
HappyServerPoll ==
  /\ ServerPoll
  /\ ~srv'.exited
  /\ \/ loc'.outcome = "started"
     \/ loc'.outcome = "none" /\ loc'.elapsed < ServerStartupTimeoutSeconds

HappyMain ==
  \/ ValidateManifest
  \/ ClearFoldersOk
  \/ DownloadFilesStart
  \/ DownloadsResolved
  \/ BuildSpawn
  \/ BuildWaited
  \/ BuildPollWaited
  \/ BuildPollWritten
  \/ BuildDoneWritten
  \/ PostBuildResolved
  \/ FinalLookupOk
  \/ FinalUploaded

HappyDownload(d) == MakeDownloadTaskOk(d) \/ DownloadWritten(d)

HappyServer ==
  \/ ServerSpawn
  \/ HappyServerLoopEnter
  \/ HappyServerPoll
  \/ ServerLookupOk
  \/ ServerLogsUploaded
  \/ ServerStartedWritten

HappyGraph == GraphUploadOk \/ GraphStatusWritten

HappyBuildLog == BuildLogsUploaded

HappyReport == ReportZipped \/ ReportSkipped \/ ReportUploaded

HappyNext ==
  \/ ValidateManifest
  \/ ClearFoldersOk
  \/ DownloadFilesStart
  \/ \E d \in DownloadNames : MakeDownloadTaskOk(d)
  \/ \E d \in DownloadNames : DownloadWritten(d)
  \/ DownloadsResolved
  \/ BuildSpawn
  \/ BuildWaited
  \/ BuildPollWaited
  \/ BuildPollWritten
  \/ BuildDoneWritten
  \/ BuildExits(0)
  \/ GraphUploadOk
  \/ GraphStatusWritten
  \/ BuildLogsUploaded
  \/ ReportZipped
  \/ ReportSkipped
  \/ ReportUploaded
  \/ ServerSpawn
  \/ HappyServerLoopEnter
  \/ HappyServerPoll
  \/ ServerLookupOk
  \/ ServerLogsUploaded
  \/ ServerStartedWritten
  \/ PostBuildResolved
  \/ FinalLookupOk
  \/ FinalUploaded

\* every timer fires and every I/O operation completes, task by task, and
\* the build process comes to its end
HappyFairness ==
  /\ WF_vars(HappyMain)
  /\ \A d \in DownloadNames : WF_vars(HappyDownload(d))
  /\ WF_vars(BuildExits(0))
  /\ WF_vars(HappyServer)
  /\ WF_vars(HappyGraph)
  /\ WF_vars(HappyBuildLog)
  /\ WF_vars(HappyReport)

HappySpec == HappyInit /\ [][HappyNext]_vars /\ HappyFairness

\* C17: on a run in which nothing outside the runner goes wrong, run()
\* eventually reaches process.exit(0).
C17_SuccessReachesExit == <>Exited

\* process.exit(0) after a build, with the graph uploaded before the server
\* was reported started
C17_Witness ==
  /\ Exited
  /\ manifest.buildGraph /\ manifest.runServer /\ manifest.uploadGraph
  /\ status.graphUploaded /\ status.serverStarted
  /\ status.message = ServerStartedMsg

\* C18: the status at process.exit(0) is fixed by the phases: a build with
\* graph upload ends with graphBuilt and graphUploaded, a server with
\* serverStarted, and pctProgress is 90 when a server was started and 100
\* after a build with graph upload alone.
C18_FinalStatusByPhases ==
  (Exited /\ (manifest.buildGraph => manifest.uploadGraph)) =>
    /\ ~status.error
    /\ status.graphBuilt = manifest.buildGraph
    /\ status.graphUploaded = manifest.buildGraph
    /\ status.serverStarted = manifest.runServer
    /\ status.pctProgress = IF manifest.runServer THEN Pct(90) ELSE Pct(100)

\* C19: pctProgress right after each milestone: build-start 30 with a server
\* to follow and 50 without, build-done 70 and 90, serve-start 70 after a
\* build and 40 without, serve-done 90, graph-upload-done 80 with a server
\* and 100 without.
C19_Checkpoints ==
  /\ [][(pc["main"] # "b_status" /\ pc'["main"] = "b_status") =>
          status'.pctProgress = IF manifest.runServer THEN Pct(30) ELSE Pct(50)]_vars
  /\ [][(~status.graphBuilt /\ status'.graphBuilt) =>
          status'.pctProgress = IF manifest.runServer THEN Pct(70) ELSE Pct(90)]_vars
  /\ [][(pc["server"] = "idle" /\ pc'["server"] = "s_status1") =>
          status'.pctProgress = IF manifest.buildGraph THEN Pct(70) ELSE Pct(40)]_vars
  /\ [][(~status.serverStarted /\ status'.serverStarted) =>
          status'.pctProgress = Pct(90)]_vars
  /\ [][(~status.graphUploaded /\ status'.graphUploaded) =>
          status'.pctProgress = IF manifest.runServer THEN Pct(80) ELSE Pct(100)]_vars

\* the graph was uploaded after the server had been reported started
C19_Witness ==
  /\ status.graphUploaded /\ status.serverStarted
  /\ status.pctProgress = Pct(80)

\* C20: the download phase starts at 10; right after the k-th of n downloads
\* pctProgress is 10 + w*k/n, with w = 20 for build and serve, 40 for build
\* alone and 30 for serve alone; when every download is done and run() has
\* not gone on, pctProgress is the start of the next phase (30, 50 or 40).
C20_DownloadProgress ==
  /\ [][(pc["main"] = "clear" /\ pc'["main"] = "dl_status") =>
          status'.pctProgress = Pct(10)]_vars
  /\ [][(status'.numFilesDownloaded = status.numFilesDownloaded + 1) =>
          LET w == IF manifest.buildGraph /\ manifest.runServer THEN 20
                   ELSE IF manifest.buildGraph THEN 40 ELSE 30
          IN  status'.pctProgress * status.totalFilesToDownload =
                Pct(10) * status.totalFilesToDownload
                  + Pct(w) * status'.numFilesDownloaded]_vars
  /\ []((pc["main"] = "dl_await"
           /\ \A d \in DownloadTasks(manifest) : Downloaded(d)) =>
          status.pctProgress =
            IF manifest.buildGraph /\ manifest.runServer THEN Pct(30)
            ELSE IF manifest.buildGraph THEN Pct(50) ELSE Pct(40))

\* the second of three downloads of a serve-only run has completed: 30
\* percent, in units of 1/PctScale
C20_Witness ==
  /\ ~manifest.buildGraph /\ manifest.runServer
  /\ status.totalFilesToDownload = MaxInputs + 2
  /\ status.numFilesDownloaded = MaxInputs + 1
  /\ status.pctProgress * (MaxInputs + 2)
       = Pct(10) * (MaxInputs + 2) + Pct(30) * (MaxInputs + 1)
  /\ \E d \in DownloadNames : pc[d] = "dl_run"

\* ------------------------------------------------ validation on its own

\* validateManifest and the call of fail it ends in, for every manifest the
\* model can express (not only those close to BaseManifest)
ValidateInit ==
  /\ manifest \in AllManifests
  /\ manifestFile = manifest
  /\ status = InitStatus
  /\ statusFile = NoFile
  /\ pc = [t \in Tasks |-> IF t = "main" THEN "start" ELSE "idle"]
  /\ wsnap = [t \in Tasks |-> NoFile]
  /\ fl = [t \in Tasks |-> NoFail]
  /\ bg = {}
  /\ err = [t \in Tasks |-> NoMsg]
  /\ instanceId = FALSE
  /\ build = "none"
  /\ srv = [spawned |-> FALSE, exited |-> FALSE, exitCode |-> 0, killed |-> FALSE,
            log |-> {}]
  /\ loc = [found |-> FALSE, graphRead |-> FALSE, elapsed |-> 0, outcome |-> "none"]
  /\ uploads = {}
  /\ copyFailed = {}
  /\ last100Logs = <<>>
  /\ linesSeen = 0
  /\ files = NoFiles
  /\ transfers = <<>>
  /\ scheme = DefaultScheme
  /\ argv = NoArgs
  /\ env \in [metadataUp : BOOLEAN, diskOk : {TRUE}]
  /\ ~manifest.prefixLogUploadsWithInstanceId => env.metadataUp

ValidateNext ==
  \/ ValidateManifest
  \/ FailWaitDone("main")
  \/ FailLookupOk("main")
  \/ FailLookupFail("main")
  \/ FailUploadDone("main")
  \/ FailWriteLand("main")
  \/ FailWriteFail("main")
  \/ \E w \in bg : BgWriteLand(w)
  \/ \E w \in bg : BgWriteFail(w)

ValidateSpec == ValidateInit /\ [][ValidateNext]_vars

UploadTasks == {"graph", "blog", "report"}

\* C22: the step that ends buildGraph starts the graph, build-log and report
\* uploads and startServer together, none of them awaited; from then on the
\* server is spawned and supervised whatever the uploads are doing, and an
\* upload completes whatever the server is doing; run() goes on only when
\* all of them have returned.
C22_UploadsAndServerConcurrent ==
  /\ [][(pc["main"] = "b_done_status" /\ pc'["main"] = "post_await") =>
          /\ \A t \in UploadTasks : pc'[t] # "idle"
          /\ manifest.uploadGraph => pc'["graph"] = "g_upload"
          /\ manifest.uploadGraphBuildLogs => pc'["blog"] = "l_upload"
          /\ manifest.uploadGraphBuildReport => pc'["report"] = "r_zip"
          /\ manifest.runServer => (pc'["server"] = "s_status1" /\ ~srv'.spawned)]_vars
  /\ [](/\ (pc["server"] = "s_status1" /\ env.diskOk) => ENABLED ServerSpawn
        /\ pc["server"] = "s_poll" => ENABLED ServerPoll
        /\ pc["graph"] = "g_upload" => ENABLED GraphUploadOk
        /\ pc["blog"] = "l_upload" => ENABLED BuildLogsUploaded
        /\ pc["report"] = "r_upload" => ENABLED ReportUploaded)
  /\ [][(pc["main"] = "post_await"
           /\ pc'["main"] \notin {"post_await", "rejected"}) =>
          \A t \in PostTasks(manifest) : pc[t] = "done"]_vars

\* the server has been reported started while the copy of the graph is still
\* in flight
C22_Witness ==
  /\ status.serverStarted /\ pc["server"] = "done"
  /\ pc["graph"] = "g_upload"
  /\ pc["main"] = "post_await"

\* C23: once run() has rejected with the error of fail, no step changes a
\* field of the status or the status file.
C23_StatusFinalAfterRejection ==
  [][(pc["main"] = "rejected" /\ err["main"] # WriteErr) =>
       (status' = status /\ statusFile' = statusFile)]_vars

\* a status write is in flight, or fail has changed the status and has not
\* yet started the write that follows
WritePending ==
  \/ \E t \in Tasks : pc[t] \in WritePcs
  \/ \E t \in Tasks : fl[t].stage = "wait" \/ fl[t].wr = "inflight"
  \/ bg # {}

\* C24: when no status write is pending and none has failed, the status file
\* holds the status of the runner (the file is written at the first change).
C24_FileHoldsLatestStatus ==
  (~WritePending /\ env.diskOk /\ status # InitStatus) => statusFile = status

C26_KillOnlyOnTimeoutOrRegistration ==
  /\ [][(~srv.killed /\ srv'.killed) =>
          /\ pc["server"] = "s_poll"
          /\ loc'.outcome \in {"regfail", "timeout"}
          /\ ~status'.serverStarted]_vars
  /\ [](status.serverStarted => (~srv.killed /\ loc.outcome = "started"))
  /\ [](srv.killed => loc.outcome \in {"regfail", "timeout"})
  /\ [][(pc'["graph"] # pc["graph"] \/ fl'["graph"] # fl["graph"]) =>
          srv' = srv]_vars
  /\ [][(build # "signal" /\ build' = "signal") =>
          UNCHANGED <<manifest, status, statusFile, pc, wsnap, fl, bg, err,
                      instanceId, srv, loc, uploads, copyFailed>>]_vars

\* the copy of the graph has failed and run() has rejected; the server has
\* been reported started afterwards, and its process is still running
C26_Witness ==
  /\ pc["graph"] = "rejected" /\ pc["main"] = "rejected"
  /\ status.serverStarted /\ pc["server"] = "done"
  /\ srv.spawned /\ ~srv.killed /\ ~srv.exited

\* C27: a download task is started only for a task of the manifest, once, and
\* ends in its status write or in fail; the build process is spawned once,
\* from no process, and only when buildGraph is set; the server process is
\* spawned once, by the one call of startServer, and only when runServer is
\* set; none of them starts again, whatever its end.
C27_NothingRetried ==
  /\ [][\A d \in DownloadNames :
          /\ pc[d] # "idle" => pc'[d] # "idle"
          /\ (pc'[d] = "dl_run" /\ pc[d] # "dl_run") =>
               (pc[d] = "idle" /\ d \in DownloadTasks(manifest))
          /\ (pc[d] = "dl_run" /\ pc'[d] # "dl_run") =>
               pc'[d] \in {"dl_write", "in_fail"}
          /\ pc[d] \in {"dl_write", "in_fail", "done", "rejected"} =>
               pc'[d] \in {"dl_write", "in_fail", "done", "rejected"}]_vars
  /\ [][/\ build # "none" => build' \notin {"none"}
        /\ (build' = "running" /\ build # "running") =>
             (build = "none" /\ manifest.buildGraph /\ pc["main"] = "b_status")
        /\ build \in {"exit0", "exit1", "signal"} => build' = build]_vars
  /\ [][/\ pc["server"] # "idle" => pc'["server"] # "idle"
        /\ (pc'["server"] = "s_status1" /\ pc["server"] # "s_status1") =>
             pc["server"] = "idle"
        /\ (srv'.spawned /\ ~srv.spawned) =>
             (manifest.runServer /\ pc["server"] = "s_status1")
        /\ srv.spawned => (srv'.spawned /\ pc'["server"] # "s_status1")]_vars
  /\ [](/\ build # "none" => manifest.buildGraph
        /\ srv.spawned => manifest.runServer)

\* the build process has exited with code 1 and run() has rejected with the
\* message of the failed build
C27_Witness ==
  /\ build = "exit1"
  /\ pc["main"] = "rejected" /\ err["main"] = BuildFailedMsg
  /\ \A d \in DownloadTasks(manifest) : pc[d] = "done"

\* nothing of the pipeline has run: run() is in fail or has rejected, no
\* other task has started, no process exists, no copy but that of the runner
\* log has been made, and the status and the status file hold the counters
\* and flags of the constructor
ZeroProgress(st) ==
  /\ st.pctProgress = 0 /\ st.numFilesDownloaded = 0
  /\ st.totalFilesToDownload = 0
  /\ ~st.graphBuilt /\ ~st.graphUploaded /\ ~st.serverStarted

NothingRan ==
  /\ pc["main"] \in {"in_fail", "rejected"}
  /\ \A t \in Tasks \ {"main"} : pc[t] = "idle" /\ fl[t] = NoFail
  /\ build = "none" /\ ~srv.spawned /\ srv.log = {}
  /\ uploads \subseteq {"runnerlog"}
  /\ status.error /\ ZeroProgress(status)
  /\ statusFile = NoFile \/ (statusFile.error /\ ZeroProgress(statusFile))

C29_TaskSetByMode ==
  [][LET m == manifest
         tasks == IF m.buildGraph THEN {"jar"} \cup Inputs(m.inputs)
                  ELSE IF m.runServer THEN {"jar", "graphobj"}
                  ELSE {"jar"}
     IN  /\ (pc["main"] = "clear" /\ pc'["main"] = "dl_status") =>
              status'.totalFilesToDownload = Cardinality(tasks)
         /\ (pc["main"] = "dl_status" /\ pc'["main"] = "dl_await") =>
              \A d \in DownloadNames : pc'[d] = "dl_run" <=> d \in tasks]_vars

\* C29, amended: the download tasks are the jar, every configured input
\* whether or not a build is enabled, and the graph when no build is enabled
\* and the server is.  downloadFiles sets totalFilesToDownload to their
\* number while no download has started, then starts exactly these tasks in
\* one step; from then on totalFilesToDownload does not change.
C29_TaskSetWithInputs ==
  /\ [][LET m == manifest
            tasks == {"jar"} \cup Inputs(m.inputs)
                       \cup (IF ~m.buildGraph /\ m.runServer
                               THEN {"graphobj"} ELSE {})
        IN  /\ (pc["main"] = "clear" /\ pc'["main"] = "dl_status") =>
                 /\ status'.totalFilesToDownload = Cardinality(tasks)
                 /\ status'.numFilesDownloaded = 0
                 /\ \A d \in DownloadNames : pc'[d] = "idle"
            /\ (pc["main"] = "dl_status" /\ pc'["main"] = "dl_await") =>
                 \A d \in DownloadNames : pc'[d] = "dl_run" <=> d \in tasks]_vars
  /\ [](LET m == manifest
            tasks == {"jar"} \cup Inputs(m.inputs)
                       \cup (IF ~m.buildGraph /\ m.runServer
                               THEN {"graphobj"} ELSE {})
        IN  \A d \in DownloadNames :
              pc[d] # "idle" =>
                (d \in tasks /\ status.totalFilesToDownload = Cardinality(tasks)))

\* a manifest that serves without building and lists an input: the jar, the
\* input and the graph are all being downloaded, of three files
C29_Witness ==
  /\ ~manifest.buildGraph /\ manifest.runServer /\ manifest.inputs > 0
  /\ \A d \in {"jar", "graphobj"} \cup Inputs(manifest.inputs) : pc[d] = "dl_run"
  /\ status.totalFilesToDownload = manifest.inputs + 2
  /\ status.numFilesDownloaded = 0

\* ------------------------------------------------ the build loop on its own

Stamp == <<"1", "2", ":", "3", "4", ":", "5", "6", " ">>

Class == <<"(", "A", ")", " ">>

Xs(n) == [i \in 1..n |-> "x"]

\* the lines the build process of the model writes: an empty line, a bare
\* message, a message after the time and the class, the time and the class
\* alone, a message that ends in a parenthesis, a line with a time and no
\* class, a line with a class and no time, and a message longer than the
\* status shows
SampleLines ==
  { <<>>,
    Xs(1),
    Stamp \o Class \o Xs(1),
    Stamp \o Class,
    Stamp \o Class \o <<"x", " ", "(", "y", ")">>,
    Stamp \o Xs(1),
    Class \o Xs(1),
    Stamp \o Class \o Xs(StatusLineChars + 1) }

\* the chunks of output the 'data' event hands over: one or two lines, each
\* ended by a line feed
Chunks ==
  {JoinLines(ls) \o <<"\n">> :
     ls \in {<<a>> : a \in SampleLines}
              \cup {<<a, b>> : a \in SampleLines, b \in SampleLines}}

\* the run of BaseManifest at the moment the build process has been spawned:
\* the jar and the input are downloaded, 'Building graph' is written
LogInit ==
  LET s1 == SetStatus([InitStatus EXCEPT !.totalFilesToDownload = 2],
                      DownloadingMsg(2), Pct(10))
      s2 == SetStatus([s1 EXCEPT !.numFilesDownloaded = 1],
                      DownloadedMsg("jar"), DownloadPct(BaseManifest, 1, 2))
      s3 == SetStatus([s2 EXCEPT !.numFilesDownloaded = 2],
                      DownloadedMsg("in1"), DownloadPct(BaseManifest, 2, 2))
      s4 == SetStatus(s3, Msg("Building graph", ""), Pct(30))
  IN  /\ manifest = BaseManifest
      /\ manifestFile = BaseManifest
      /\ status = s4
      /\ statusFile = s4
      /\ pc = [t \in Tasks |-> IF t = "main" THEN "b_wait"
                               ELSE IF t \in {"jar", "in1"} THEN "done"
                               ELSE "idle"]
      /\ wsnap = [t \in Tasks |-> IF t = "main" THEN s4
                                  ELSE IF t = "jar" THEN s2
                                  ELSE IF t = "in1" THEN s3
                                  ELSE NoFile]
      /\ fl = [t \in Tasks |-> NoFail]
      /\ bg = {}
      /\ err = [t \in Tasks |-> NoMsg]
      /\ instanceId = FALSE
      /\ build = "running"
      /\ srv = [spawned |-> FALSE, exited |-> FALSE, exitCode |-> 0,
                killed |-> FALSE, log |-> {}]
      /\ loc = [found |-> FALSE, graphRead |-> FALSE, elapsed |-> 0,
                outcome |-> "none"]
      /\ uploads = {}
      /\ copyFailed = {}
      /\ last100Logs = <<>>
      /\ linesSeen = 0
      /\ files = [NoFiles EXCEPT !["jar"] = "complete", !["in1"] = "complete"]
      /\ transfers = << [dest |-> "jar", by |-> "got"],
                        [dest |-> "in1", by |-> "got"] >>
      /\ scheme = DefaultScheme
      /\ argv = [NoArgs EXCEPT !.build = makeBuildArgs(BaseManifest)]
      /\ env = [metadataUp |-> TRUE, diskOk |-> TRUE]

\* the build process writes a chunk of output: the 'data' handler runs
BuildLogData(data) ==
  /\ build = "running"
  /\ last100Logs' = OnBuildData(last100Logs, data)
  /\ linesSeen' = linesSeen + (IF Trim(data) = <<>> THEN 0
                                ELSE Len(SplitLines(Trim(data))))
  /\ UNCHANGED <<manifestFile, manifest, status, statusFile, pc, wsnap, fl, bg,
                 err, instanceId, build, srv, loc, uploads, copyFailed, files,
                 transfers, scheme, argv, env>>

\* the loop of buildGraph while the build process runs and writes output
LogNext ==
  \/ \E data \in Chunks :
       /\ Len(OnBuildData(last100Logs, data)) <= MaxLogLines
       /\ BuildLogData(data)
  \/ BuildWaited
  \/ BuildPollWaited
  \/ BuildPollWritten

LogSpec == LogInit /\ [][LogNext]_vars

\* C30: the message of the status the loop of buildGraph writes has no log
\* text while the buffer holds no line or one line; once it holds two or more
\* it has the text of the latest line, which is not empty, is at most 60
\* characters long, and is the head of what is left of the latest line after
\* the time and the class.
C30_StatusLineFromWindow ==
  [][(pc["main"] = "b_poll" /\ pc'["main"] = "b_poll_status") =>
       LET n == Len(last100Logs)
           shown == status'.message.line
           lastLog == SubSeq(shown, 3, Len(shown) - 1)
       IN  /\ status'.message.text = "Building graph... "
           /\ n <= 1 => shown = <<>>
           /\ n >= 2 =>
                /\ shown # <<>> /\ lastLog # <<>>
                /\ Len(lastLog) <= StatusLineChars
                /\ \E k \in 0..Len(last100Logs[n]) :
                     LET rest == SubSeq(last100Logs[n], k + 1, Len(last100Logs[n]))
                     IN  lastLog = SubSeq(rest, 1, Len(lastLog))]_vars

\* ------------------------------------------------ the log window on its own

\* the largest number of lines the build process writes beyond the capacity
\* of the buffer
MaxOverflow == 5

\* the largest number of lines the build process writes in a run that fills
\* the buffer
MaxArrived == LogWindowSize + MaxOverflow

\* the largest number of lines in one chunk of such a run
MaxChunkLines == 3

\* the chunk that holds the c lines after line k, each ended by a line feed;
\* the k-th line of the build output of this run is a line of k characters
NumberedChunk(k, c) == JoinLines([i \in 1..c |-> Xs(k + i)]) \o <<"\n">>

\* the 'data' handler, fed with the numbered lines of a long build
WindowNext ==
  \E c \in 1..MaxChunkLines :
    /\ linesSeen + c <= MaxArrived
    /\ BuildLogData(NumberedChunk(linesSeen, c))

WindowSpec == LogInit /\ [][WindowNext]_vars

\* C31: the buffer never holds more than 100 lines; after any sequence of
\* chunks it holds the last min(100, total) lines that arrived, in the order
\* of their arrival.
C31_WindowHoldsLatest ==
  LET n == Len(last100Logs)
  IN  /\ n <= LogWindowSize
      /\ n = IF linesSeen < LogWindowSize THEN linesSeen ELSE LogWindowSize
      /\ \A i \in 1..n : last100Logs[i] = Xs(linesSeen - n + i)

\* three lines more than the buffer holds have arrived: the buffer holds
\* lines 4 to 103
C31_Witness ==
  /\ linesSeen = LogWindowSize + 3
  /\ Len(last100Logs) = LogWindowSize
  /\ last100Logs[1] = Xs(4)
  /\ last100Logs[LogWindowSize] = Xs(LogWindowSize + 3)


\* ------------------------------------------ one run after another (C32)

\* the number of transfers from which on no further run is started
MaxTransfers == 3

Protocols == {"s3:", "http:", "https:"}

\* valid manifests that upload nothing: they differ in what is built, served
\* and downloaded
RerunManifests ==
  {m \in {[BaseManifest EXCEPT !.buildGraph = b, !.runServer = r,
                               !.inputs = n] :
             b \in BOOLEAN, r \in BOOLEAN, n \in {0, MaxInputs}} :
     ManifestErrors(m) = {}}

\* the process has ended, at whatever point, and bin/otp-runner.js is started
\* again on the same machine, with a manifest file that may name another jarUrl:
\* a new OtpRunner is constructed, the files on disk are what they were
Restart ==
  /\ Len(transfers) < MaxTransfers
  /\ manifest' \in RerunManifests
  /\ manifestFile' = manifest'
  /\ scheme' \in {s \in [DownloadNames \ {"graphobj"} -> Protocols] :
                    \A d \in Inputs(MaxInputs) : s[d] = DefaultScheme[d]}
  /\ status' = InitStatus
  /\ pc' = [t \in Tasks |-> IF t = "main" THEN "start" ELSE "idle"]
  /\ wsnap' = [t \in Tasks |-> NoFile]
  /\ fl' = [t \in Tasks |-> NoFail]
  /\ bg' = {}
  /\ err' = [t \in Tasks |-> NoMsg]
  /\ UNCHANGED <<statusFile, instanceId, build, srv, loc, uploads, copyFailed,
                 last100Logs, linesSeen, files, transfers, argv, env>>

RerunInit ==
  /\ Init
  /\ manifest \in RerunManifests
  /\ env.metadataUp

\* the runs up to the end of the downloads, one after another
RerunNext ==
  \/ ValidateManifest
  \/ ClearFoldersOk
  \/ DownloadFilesStart
  \/ \E d \in DownloadNames : MakeDownloadTaskOk(d)
  \/ \E d \in DownloadNames : MakeDownloadTaskFail(d)
  \/ \E d \in DownloadNames : DownloadWritten(d)
  \/ Restart

RerunSpec == RerunInit /\ [][RerunNext]_vars

\* the number of transfers started for destination d
TransfersTo(d) == Cardinality({i \in 1..Len(transfers) : transfers[i].dest = d})

\* C32: a call of downloadFileIfNeeded for a destination that exists starts
\* no transfer and leaves the file as it is; a call for a destination that
\* does not exist starts exactly one transfer, by the aws CLI when the url
\* is an s3: url and by got for any other url; and the jar, which nothing
\* removes, is not transferred again by any run once it has been fetched.
C32_OneTransferWhenAbsent ==
  /\ [][files["jar"] = "complete" =>
          TransfersTo("jar")' = TransfersTo("jar")]_vars
  /\ [][\A d \in DownloadNames :
          pc[d] = "dl_run" /\ pc'[d] \in {"dl_write", "in_fail"} =>
            IF files[d] # "absent"
              THEN transfers' = transfers /\ files' = files
              ELSE transfers' =
                     Append(transfers,
                            [dest |-> d,
                             by |-> IF UrlProtocol(d) = "s3:"
                                      THEN "aws" ELSE "got"])]_vars

\* a second run has found the jar the first run fetched by the aws CLI, and
\* has fetched the input again
C32_Witness ==
  /\ pc["jar"] = "done" /\ pc["in1"] = "done"
  /\ files["jar"] = "complete"
  /\ TransfersTo("jar") = 1 /\ TransfersTo("in1") = 2
  /\ transfers[1] = [dest |-> "jar", by |-> "aws"]

\* C38: every download that has been counted in numFilesDownloaded has the
\* whole file at its destination: a file an earlier run left incomplete is
\* fetched again before it is counted.
C38_CountedFilesAreComplete ==
  \A d \in DownloadNames :
    pc[d] \in {"dl_write", "done"} => files[d] = "complete"

\* ------------------------------------------------- command lines (C33)

\* C33: java is spawned for a build with -jar -Xmx<mem>k jar --build
\* baseFolder/routerName by a 1.x manifest and with -jar -Xmx<mem>k jar
\* --build --save --abortOnUnknownConfig baseFolder by a 2.x manifest, and
\* for the server with ... --server --graphs baseFolder --router routerName
\* by a 1.x manifest and with ... --load baseFolder by a 2.x manifest.
C33_CommandLines ==
  LET base == <<"-jar", "-Xmx<mem>k", "jarFile">>
  IN  /\ argv.build # <<>> =>
           argv.build =
             IF manifest.otpVersion = "1.x"
               THEN base \o <<"--build", "baseFolder/routerName">>
               ELSE base \o <<"--build", "--save", "--abortOnUnknownConfig",
                              "baseFolder">>
      /\ argv.serve # <<>> =>
           argv.serve =
             IF manifest.otpVersion = "1.x"
               THEN base \o <<"--server", "--graphs", "baseFolder",
                              "--router", "routerName">>
               ELSE base \o <<"--load", "baseFolder">>

\* ------------------------------------------------ server readiness (C34)

\* what a pass of the loop has to find for the loop to end without a call of
\* fail: both flags set, no marker of a failed registration in the log read,
\* the time elapsed not above the timeout
ReadyAtPoll(l, data) ==
  /\ l.found /\ l.graphRead
  /\ NoGraphMarker \notin data
  /\ l.elapsed <= ServerStartupTimeoutSeconds

C35_LoopEndsWithProcess ==
  (build \in {"exit0", "exit1", "signal"}) ~>
    (pc["main"] \notin {"b_wait", "b_poll", "b_poll_status"})

\* -------------------------------------------------- status flags (C36)

\* C36: in every state, graphUploaded implies graphBuilt; graphBuilt implies
\* that the manifest asks for a build and that every download has been
\* counted; serverStarted implies that the manifest asks for the server, that
\* every download has been counted and, if the manifest asks for a build,
\* that the graph has been built.
C36_FlagsFollowPhases ==
  /\ status.graphUploaded => status.graphBuilt
  /\ status.graphBuilt =>
       /\ manifest.buildGraph
       /\ status.numFilesDownloaded = status.totalFilesToDownload
  /\ status.serverStarted =>
       /\ manifest.runServer
       /\ status.numFilesDownloaded = status.totalFilesToDownload
       /\ manifest.buildGraph => status.graphBuilt

\* the graph has been built and uploaded and the server has started
C36_Witness ==
  /\ status.graphUploaded /\ status.graphBuilt /\ status.serverStarted
  /\ status.numFilesDownloaded = 2

\* ------------------------------------------ uploads without a path (C37)

\* C37: a manifest without s3UploadPath never has the runner log, the build
\* log, the server log or the report copied to s3, on whichever path
\* validation fails.
C37_NoUploadWithoutPath ==
  ~manifest.s3UploadPath =>
     uploads \cap {"runnerlog", "buildlog", "serverlog", "report"} = {}

\* ------------------------------------------- the command line (C39)

\* the properties of the manifest as validation leaves them when the object
\* it is given has none of them: the default of the schema, and absent (no
\* inputs, no graphObjUrl, no s3UploadPath) where the schema has none
SchemaDefaults ==
  [ buildGraph |-> TRUE, runServer |-> TRUE, uploadGraph |-> FALSE,
    uploadGraphBuildLogs |-> FALSE, uploadGraphBuildReport |-> FALSE,
    uploadServerStartupLogs |-> FALSE, uploadOtpRunnerLogs |-> FALSE,
    prefixLogUploadsWithInstanceId |-> FALSE, otpVersion |-> "1.x",
    s3UploadPath |-> FALSE, schemaValid |-> TRUE, graphObjUrl |-> "none",
    inputs |-> 0 ]

\* fs.readFile(path) without an encoding: a Buffer, which holds the bytes of
\* the file and has none of the properties of the manifest written in it
readFile(file) == [bytes |-> file]

\* validator(this.manifest) with useDefaults: a property the object has is
\* kept, a property it lacks gets the default of the schema
UseDefaults(obj) ==
  [k \in DOMAIN SchemaDefaults |->
     IF k \in DOMAIN obj THEN obj[k] ELSE SchemaDefaults[k]]

\* main of bin/otp-runner.js: the runner is constructed on what readFile
\* returns, nothing parses it
CliManifest(file) == UseDefaults(readFile(file))

\* bin/otp-runner.js has been started on a manifest file and has constructed
\* the runner
CliInit ==
  /\ manifestFile \in Manifests
  /\ manifest = CliManifest(manifestFile)
  /\ status = InitStatus
  /\ statusFile = NoFile
  /\ pc = [t \in Tasks |-> IF t = "main" THEN "start" ELSE "idle"]
  /\ wsnap = [t \in Tasks |-> NoFile]
  /\ fl = [t \in Tasks |-> NoFail]
  /\ bg = {}
  /\ err = [t \in Tasks |-> NoMsg]
  /\ instanceId = FALSE
  /\ build = "none"
  /\ srv = [spawned |-> FALSE, exited |-> FALSE, exitCode |-> 0,
            killed |-> FALSE, log |-> {}]
  /\ loc = [found |-> FALSE, graphRead |-> FALSE, elapsed |-> 0,
            outcome |-> "none"]
  /\ uploads = {}
  /\ copyFailed = {}
  /\ last100Logs = <<>>
  /\ linesSeen = 0
  /\ files = NoFiles
  /\ transfers = <<>>
  /\ scheme = DefaultScheme
  /\ argv = NoArgs
  /\ env \in [metadataUp : BOOLEAN, diskOk : {TRUE}]

\* run() as far as it gets from there: validation, and the call of fail it
\* ends in
CliNext ==
  \/ ValidateManifest
  \/ FailWaitDone("main")
  \/ FailWriteLand("main")
  \/ FailWriteFail("main")

CliSpec == CliInit /\ [][CliNext]_vars

\* C39: started from the command line, the runner validates and acts on the
\* fields as the manifest file has them: what it builds and serves, the
\* engine version, what it uploads and where from and to.
C39_RunsTheFileConfiguration ==
  pc["main"] # "start" =>
    \A k \in DOMAIN manifestFile \ {"schemaValid", "uploadOtpRunnerLogs"} :
      manifest[k] = manifestFile[k]
====
